---- MODULE Spec2Model ----
(***************************************************************************)
(* A model of the quest-tracker service worker (src/sw.js): the IndexedDB  *)
(* store and its primitives, the message handlers, quest reconciliation    *)
(* (updateQuestProgress), the health/steps API, the share target with its  *)
(* text normalizer, and the cache lifecycle.                               *)
(*                                                                         *)
(* Handlers are asynchronous: every await of a store transaction is a      *)
(* yield point, so handlers interleave at the granularity of single        *)
(* transactions.  One step of a handler is one action of the model.        *)
(***************************************************************************)
EXTENDS Integers, Sequences, FiniteSets, TLC

VARIABLES
  steps,       \* the Steps collection: record id = position in the sequence
  healthData,  \* the HealthData collection
  quests,      \* the Quests collection
  habits,      \* the Habits collection (never written by sw.js)
  hs,          \* handler slot -> the handler task running in it
  outbox,      \* the messages posted to the connected clients
  fin,         \* history: the last run of updateQuestProgress that finished,
               \*   while nothing has written Steps or Quests since
  idem,        \* history: how a run directly after another run left the quests
  covered,     \* history: a run that started after the latest insert finished
  ran,         \* history: the deferred-work run that ended last
  resp,        \* the response a fetch handler gave last, with its request
  caches,      \* cache name -> None (no such cache) or Some(url -> stored response)
  puts,        \* the cache.put calls issued and not yet carried out
  act,         \* the activate handler's task
  inst         \* the install handler's task

storeVars == <<steps, healthData, quests, habits>>
histVars == <<fin, idem, covered, ran>>
cacheVars == <<caches, puts, act, inst>>
vars == <<steps, healthData, quests, habits, hs, outbox, fin, idem, covered, ran,
          resp, caches, puts, act, inst>>

----------------------------------------------------------------------------
(* Bounds of the model *)

MaxHandlers == 2   \* handler tasks in flight at once
MaxSteps == 2      \* records the Steps collection may hold
MaxQuests == 2     \* records the Quests collection may hold
MaxDeferred == 1   \* deferred-work runs in flight at once
MaxHealth == 1     \* records the HealthData collection may hold

----------------------------------------------------------------------------
(* Values *)

Undefined == "undefined"
Now == "now"                  \* what Date.now() returns

\* Characters are one-character strings and a text is a sequence of them.
\* CharCode is the character's code unit: strings compare by code units.
CharCode(c) ==
  CASE c = "\n" -> 10 [] c = " " -> 32 [] c = "\"" -> 34 [] c = "," -> 44
    [] c = "-" -> 45 [] c = "0" -> 48 [] c = "1" -> 49 [] c = "2" -> 50
    [] c = "3" -> 51 [] c = "4" -> 52 [] c = "5" -> 53 [] c = "6" -> 54
    [] c = "7" -> 55 [] c = "8" -> 56 [] c = "9" -> 57 [] c = ":" -> 58
    [] c = "S" -> 83 [] c = "[" -> 91 [] c = "]" -> 93 [] c = "a" -> 97
    [] c = "c" -> 99 [] c = "d" -> 100 [] c = "e" -> 101 [] c = "h" -> 104
    [] c = "l" -> 108 [] c = "m" -> 109 [] c = "o" -> 111 [] c = "p" -> 112
    [] c = "r" -> 114 [] c = "s" -> 115 [] c = "t" -> 116 [] c = "u" -> 117
    [] c = "v" -> 118 [] c = "y" -> 121 [] c = "{" -> 123 [] c = "}" -> 125

RECURSIVE StrLeq(_, _)
\* a <= b for strings, as IndexedDB orders string keys
StrLeq(a, b) ==
  IF a = <<>> THEN TRUE
  ELSE IF b = <<>> THEN FALSE
  ELSE IF Head(a) = Head(b) THEN StrLeq(Tail(a), Tail(b))
  ELSE CharCode(Head(a)) < CharCode(Head(b))

\* Calendar days, as the ISO date strings of toISOString().split('T')[0]
Day1 == <<"2", "0", "2", "4", "-", "0", "1", "-", "0", "1">>
Day2 == <<"2", "0", "2", "4", "-", "0", "1", "-", "0", "2">>
Day3 == <<"2", "0", "2", "4", "-", "0", "1", "-", "0", "3">>
Dates == {Day1, Day2, Day3}
Today == Day2                 \* new Date().toISOString().split('T')[0]

None == <<>>
Some(x) == <<x>>

Min(a, b) == IF a <= b THEN a ELSE b

\* The records a client may send with SAVE_STEPS_DATA / POST /api/steps.
StepInputs ==
  { [date |-> Today, steps |-> 1, timestamp |-> Undefined],
    [date |-> Day1, steps |-> 1, timestamp |-> Undefined] }

\* The records a client may send with SAVE_QUEST_DATA: a fitness quest, a
\* quest of type steps saved with more progress than its target, a quest
\* with a target of 0 steps, and a fitness quest without a target.
QuestInputs ==
  { [category |-> "fitness", type |-> Undefined, target |-> Some([steps |-> 2]),
     progress |-> 0, completed |-> FALSE, timestamp |-> Undefined, updatedAt |-> Undefined],
    [category |-> "other", type |-> "steps", target |-> Some([steps |-> 1]),
     progress |-> 2, completed |-> FALSE, timestamp |-> Undefined, updatedAt |-> Undefined],
    [category |-> "fitness", type |-> Undefined, target |-> Some([steps |-> 0]),
     progress |-> 0, completed |-> FALSE, timestamp |-> Undefined, updatedAt |-> Undefined],
    [category |-> "fitness", type |-> Undefined, target |-> None,
     progress |-> 0, completed |-> FALSE, timestamp |-> Undefined, updatedAt |-> Undefined] }

\* The records a client may send with SAVE_HEALTH_DATA.
HealthInputs ==
  { [type |-> "heartRate", value |-> 1, timestamp |-> Undefined] }

----------------------------------------------------------------------------
(* Strings: the String methods and parseInt that the normalizer calls *)

\* white space, for trim(), parseInt and \s
IsSpace(c) == c \in {" ", "\n"}

IsDigit(c) == c \in {"0", "1", "2", "3", "4", "5", "6", "7", "8", "9"}

DigitValue(c) == CharCode(c) - 48

\* body with value in the place of its parameter
Bind(value, body(_)) == body(value)

\* the character at position i, "" beyond the end of the text
At(t, i) == IF i \in 1..Len(t) THEN t[i] ELSE ""

\* the i flag of the step pattern: the texts hold one capital letter
Lower(c) == IF c = "S" THEN "s" ELSE c

\* text.includes(c)
Includes(t, c) == \E i \in 1..Len(t) : t[i] = c

\* the first position at or after i where P does not hold, Len(t) + 1 if none
SkipWhile(t, i, P(_)) ==
  LET stop == {j \in i..Len(t) + 1 : j = Len(t) + 1 \/ ~P(t[j])}
  IN  CHOOSE j \in stop : \A k \in stop : j <= k

RECURSIVE Split(_, _)
\* text.split(c)
Split(t, c) ==
  LET at == SkipWhile(t, 1, LAMBDA x : x # c)
  IN  IF at > Len(t) THEN <<t>>
      ELSE <<SubSeq(t, 1, at - 1)>> \o Split(SubSeq(t, at + 1, Len(t)), c)

\* text.trim()
Trim(t) ==
  LET from == SkipWhile(t, 1, IsSpace)
      kept == {j \in from..Len(t) : ~IsSpace(t[j])}
  IN  IF kept = {} THEN <<>>
      ELSE SubSeq(t, from, CHOOSE j \in kept : \A k \in kept : k <= j)

RECURSIVE Decimal(_)
\* the number a run of digits denotes
Decimal(ds) ==
  IF ds = <<>> THEN 0
  ELSE 10 * Decimal(SubSeq(ds, 1, Len(ds) - 1)) + DigitValue(ds[Len(ds)])

\* parseInt(t): leading white space, a sign, then the longest run of digits;
\* NaN when there is no digit. (No text here starts with 0x.)
ParseInt(t) ==
  LET from == SkipWhile(t, 1, IsSpace)
      neg == At(t, from) = "-"
      first == IF neg THEN from + 1 ELSE from
      stop == SkipWhile(t, first, IsDigit)
      n == Decimal(SubSeq(t, first, stop - 1))
  IN  [nan |-> stop = first, value |-> IF neg THEN 0 - n ELSE n]

\* parseInt(t) || 0
ParseIntOrZero(t) == IF ParseInt(t).nan THEN 0 ELSE ParseInt(t).value

----------------------------------------------------------------------------
(* JavaScript values, as JSON.parse and the normalizer produce them *)

Num(n) == [t |-> "number", v |-> n]
Str(s) == [t |-> "string", v |-> s]
Obj(f) == [t |-> "object", v |-> f]     \* f: property name -> value
Arr(s) == [t |-> "array", v |-> s]

\* ToBoolean
Truthy(x) ==
  CASE x.t = "number" -> x.v # 0
    [] x.t = "string" -> x.v # <<>>
    [] OTHER -> TRUE

\* item[k] !== undefined: only an object has properties of its own here
Has(x, k) == x.t = "object" /\ k \in DOMAIN x.v

\* the object f with property k set to v
WithProperty(f, k, v) == [j \in DOMAIN f \cup {k} |-> IF j = k THEN v ELSE f[j]]

RECURSIVE Raw(_)
\* the value as the store keeps it: structured clone drops nothing from these
Raw(x) ==
  CASE x.t = "object" -> [k \in DOMAIN x.v |-> Raw(x.v[k])]
    [] x.t = "array" -> [i \in DOMAIN x.v |-> Raw(x.v[i])]
    [] OTHER -> x.v

\* The words the code and the payloads use, as texts
STEPS == <<"s", "t", "e", "p", "s">>
SHARED == <<"s", "h", "a", "r", "e", "d">>
SLEEP == <<"s", "l", "e", "e", "p">>

\* The property names the payloads use; any other name reads as "other"
PropertyName(k) ==
  CASE k = <<"t", "y", "p", "e">> -> "type"
    [] k = STEPS -> "steps"
    [] k = <<"v", "a", "l", "u", "e">> -> "value"
    [] k = <<"d", "a", "t", "e">> -> "date"
    [] k = <<"s", "o", "u", "r", "c", "e">> -> "source"
    [] k = <<"m", "e", "t", "a", "d", "a", "t", "a">> -> "metadata"
    [] OTHER -> "other"

\* store.add(item) takes an object; a number or a string cannot carry the
\* timestamp and the key, and the add throws. (No text here nests an array
\* in an array.)
CanStore(item) ==
  CASE item.t = "object" -> TRUE
    [] item.t \in {"number", "string"} -> FALSE

RECURSIVE Join(_, _)
\* the parts, with sep between them
Join(parts, sep) ==
  IF parts = <<>> THEN <<>>
  ELSE IF Len(parts) = 1 THEN parts[1]
  ELSE parts[1] \o sep \o Join(Tail(parts), sep)

\* the sequences of 1 to n elements of S
UpTo(S, n) == UNION {[1..k -> S] : k \in 1..n}

\* JSON texts: "name":value members, objects and arrays
Quoted(s) == <<"\"">> \o s \o <<"\"">>
Member(name, value) == Quoted(name) \o <<":">> \o value
ObjectText(members) == <<"{">> \o Join(members, <<",">>) \o <<"}">>
ArrayText(elements) == <<"[">> \o Join(elements, <<",">>) \o <<"]">>

----------------------------------------------------------------------------
(* JSON.parse, for the grammar the texts can reach: numbers without fraction
   or exponent, strings without escapes, objects and arrays. The literals
   true, false and null do not occur in the texts. *)

ParseFail == [ok |-> FALSE, next |-> 0, value |-> Num(0)]

Parsed(value, next) == [ok |-> TRUE, next |-> next, value |-> value]

\* -? (0 | [1-9][0-9]*): a leading zero ends the number
ParseNumber(t, i) ==
  LET neg == At(t, i) = "-"
      first == IF neg THEN i + 1 ELSE i
      stop == IF At(t, first) = "0" THEN first + 1 ELSE SkipWhile(t, first, IsDigit)
      n == Decimal(SubSeq(t, first, stop - 1))
  IN  IF stop = first THEN ParseFail
      ELSE Parsed(Num(IF neg THEN 0 - n ELSE n), stop)

\* " chars ": a line break inside a string is a syntax error
ParseString(t, i) ==
  LET close == SkipWhile(t, i + 1, LAMBDA x : x # "\"")
      s == SubSeq(t, i + 1, close - 1)
  IN  IF At(t, i) # "\"" \/ close > Len(t) \/ Includes(s, "\n") THEN ParseFail
      ELSE Parsed(Str(s), close + 1)

RECURSIVE ParseValue(_, _), ParseMembers(_, _, _), ParseElements(_, _, _)

\* the value that starts at position i
ParseValue(t, i) ==
  CASE At(t, i) = "{" ->
         LET j == SkipWhile(t, i + 1, IsSpace)
         IN  IF At(t, j) = "}" THEN Parsed(Obj(<<>>), j + 1)
             ELSE ParseMembers(t, j, <<>>)
    [] At(t, i) = "[" ->
         LET j == SkipWhile(t, i + 1, IsSpace)
         IN  IF At(t, j) = "]" THEN Parsed(Arr(<<>>), j + 1)
             ELSE ParseElements(t, j, <<>>)
    [] At(t, i) = "\"" -> ParseString(t, i)
    [] At(t, i) = "-" \/ IsDigit(At(t, i)) -> ParseNumber(t, i)
    [] OTHER -> ParseFail

\* "name" : value, then a comma and the next member or the closing brace;
\* a name given twice keeps the last value
ParseMembers(t, i, f) ==
  Bind(ParseString(t, i), LAMBDA name :
    IF ~name.ok THEN ParseFail
    ELSE Bind(SkipWhile(t, name.next, IsSpace), LAMBDA colon :
      IF At(t, colon) # ":" THEN ParseFail
      ELSE Bind(ParseValue(t, SkipWhile(t, colon + 1, IsSpace)), LAMBDA val :
        IF ~val.ok THEN ParseFail
        ELSE Bind(SkipWhile(t, val.next, IsSpace), LAMBDA after :
          IF At(t, after) = ","
          THEN ParseMembers(t, SkipWhile(t, after + 1, IsSpace),
                            WithProperty(f, PropertyName(name.value.v), val.value))
          ELSE IF At(t, after) = "}"
          THEN Parsed(Obj(WithProperty(f, PropertyName(name.value.v), val.value)),
                      after + 1)
          ELSE ParseFail))))

\* value, then a comma and the next element or the closing bracket
ParseElements(t, i, s) ==
  Bind(ParseValue(t, i), LAMBDA val :
    IF ~val.ok THEN ParseFail
    ELSE Bind(SkipWhile(t, val.next, IsSpace), LAMBDA after :
      IF At(t, after) = ","
      THEN ParseElements(t, SkipWhile(t, after + 1, IsSpace), Append(s, val.value))
      ELSE IF At(t, after) = "]" THEN Parsed(Arr(Append(s, val.value)), after + 1)
      ELSE ParseFail))

\* JSON.parse(t): one value with nothing but white space around it, or a
\* SyntaxError
JSONParse(t) ==
  Bind(ParseValue(t, SkipWhile(t, 1, IsSpace)), LAMBDA val :
    IF val.ok /\ SkipWhile(t, val.next, IsSpace) = Len(t) + 1
    THEN [ok |-> TRUE, value |-> val.value]
    ELSE [ok |-> FALSE, value |-> Num(0)])

----------------------------------------------------------------------------
(* parseHealthDataText (lines 308-341) *)

\* A normalizer that takes every line as a row
IsHeader_none(index) == FALSE

\* line 316: the first line is taken as a header
IsHeader(index) == index = 0

\* lines 319-323: the record of a comma-delimited line
CsvRecord(parts) ==
  Obj([date |-> Str(Trim(parts[1])), steps |-> Num(ParseIntOrZero(Trim(parts[2]))),
       type |-> Str(STEPS)])

\* lines 314-325: every line but the header that has two parts or more
CsvRecords(lines) ==
  LET rows == [k \in 1..Len(lines) |->
                 [index |-> k - 1, parts |-> Split(lines[k], ",")]]
      kept == SelectSeq(rows, LAMBDA r : ~IsHeader(r.index) /\ Len(r.parts) >= 2)
  IN  [k \in 1..Len(kept) |-> CsvRecord(kept[k].parts)]

\* /(\d{1,5})\s*steps?/i tried at position i: the digits must end within five
\* characters, since the pattern has nothing that matches a sixth digit
StepMatchAt(t, i) ==
  LET digitsEnd == SkipWhile(t, i, IsDigit)
      word == SkipWhile(t, digitsEnd, IsSpace)
      isStep == /\ Lower(At(t, word)) = "s" /\ Lower(At(t, word + 1)) = "t"
                /\ Lower(At(t, word + 2)) = "e" /\ Lower(At(t, word + 3)) = "p"
      last == IF Lower(At(t, word + 4)) = "s" THEN word + 4 ELSE word + 3
  IN  IF digitsEnd > i /\ digitsEnd - i <= 5 /\ isStep
      THEN [ok |-> TRUE, last |-> last, digits |-> SubSeq(t, i, digitsEnd - 1)]
      ELSE [ok |-> FALSE, last |-> i, digits |-> <<>>]

RECURSIVE StepMatches(_, _)
\* text.match(/.../gi) from position i on: the matches from left to right,
\* each one reduced to its digits (line 330)
StepMatches(t, i) ==
  IF i > Len(t) THEN <<>>
  ELSE LET m == StepMatchAt(t, i)
       IN  IF m.ok THEN <<m.digits>> \o StepMatches(t, m.last + 1)
           ELSE StepMatches(t, i + 1)

\* lines 331-335: the record of a match, dated today
MatchRecord(digits) ==
  Obj([date |-> Str(Today), steps |-> Num(ParseInt(digits).value), type |-> Str(STEPS)])

\* A normalizer that keeps a text it cannot read as a note
parseHealthDataText_note(text) ==
  IF Includes(text, ",")
  THEN Arr(CsvRecords(Split(text, "\n")))
  ELSE Bind(StepMatches(text, 1), LAMBDA ms :
         IF ms = <<>> THEN Arr(<<Obj([type |-> Str(<<"n", "o", "t", "e">>)])>>)
         ELSE Arr([k \in 1..Len(ms) |-> MatchRecord(ms[k])]))

parseHealthDataText(text) ==
  IF Includes(text, ",")
  THEN Arr(CsvRecords(Split(text, "\n")))
  ELSE Bind(StepMatches(text, 1), LAMBDA ms :
         Arr([k \in 1..Len(ms) |-> MatchRecord(ms[k])]))

----------------------------------------------------------------------------
(* The store primitives *)

\* saveToStore: store.add(data) after data.timestamp is defaulted; the key
\* generator gives the record the next id.
saveToStore(coll, data) ==
  Append(coll, IF "timestamp" \in DOMAIN data /\ data.timestamp # Undefined
               THEN data ELSE WithProperty(data, "timestamp", Now))

\* updateInStore: store.put(data) after data.updatedAt is set; the record
\* with data's id is replaced as a whole.
updateInStore(coll, id, data) ==
  [coll EXCEPT ![id] = [data EXCEPT !.updatedAt = Now]]

\* getAllFromStore: store.getAll()
getAllFromStore(coll) == coll

InRange(coll, startDate, endDate) ==
  SelectSeq(coll, LAMBDA r : StrLeq(startDate, r.date) /\ StrLeq(r.date, endDate))

\* getStepsByDateRange: line 120 reads the undeclared variable storeName, so
\* the call throws a ReferenceError before the index is queried, whatever the
\* arguments and whatever the Steps collection holds.
getStepsByDateRange(startDate, endDate) ==
  [ok |-> FALSE, error |-> "ReferenceError", value |-> <<>>]

----------------------------------------------------------------------------
(* Quest reconciliation: the pure parts *)

RECURSIVE SumSteps(_)
\* todaySteps.reduce((sum, entry) => sum + entry.steps, 0)
SumSteps(s) == IF s = <<>> THEN 0 ELSE Head(s).steps + SumSteps(Tail(s))

\* quest.category === 'fitness' || quest.type === 'steps'
IsStepQuest(q) == q.category = "fitness" \/ q.type = "steps"

\* quest.target && quest.target.steps: a target of 0 steps is falsy
HasStepTarget(q) == q.target # None /\ q.target[1].steps # 0

\* the quest as lines 381-382 leave it
Recomputed(q, totalStepsToday) ==
  LET p == Min(totalStepsToday, q.target[1].steps)
  IN  [q EXCEPT !.progress = p, !.completed = (p >= q.target[1].steps)]

\* the first quest at or after position i that the loop updates, 0 if none
NextUpdate(qs, i) ==
  LET c == {j \in i..Len(qs) : IsStepQuest(qs[j]) /\ HasStepTarget(qs[j])}
  IN  IF c = {} THEN 0 ELSE CHOOSE j \in c : \A k \in c : j <= k

ProgressView(qs) == [i \in DOMAIN qs |-> <<qs[i].progress, qs[i].completed>>]

----------------------------------------------------------------------------
(* The caches (lines 1-3) *)

CACHE_NAME == "quest-tracker-v3"
DATA_CACHE_NAME == "quest-data-v2"
HEALTH_CACHE_NAME == "health-data-v1"

CurrentCaches == {CACHE_NAME, DATA_CACHE_NAME, HEALTH_CACHE_NAME}

\* the caches an earlier version of the worker may have left behind
OldCaches == {"quest-tracker-v2", "quest-data-v1"}

CacheNames == CurrentCaches \cup OldCaches

\* the URLs of the generic API
Urls == {"/api/quests", "/api/habits"}

\* lines 6-12: the app shell files, as the URLs they resolve to
FILES_TO_CACHE ==
  {"/", "/index.html", "/manifest.json", "https://cdn.tailwindcss.com/3.4.17",
   "https://sdk.scdn.co/spotify-player.js"}

\* the URLs of the app shell: the files of the list and one that is not in it
ShellUrls == FILES_TO_CACHE \cup {"/app.js"}

EmptyCache == [u \in Urls \cup ShellUrls |-> None]

IdleActivate == [pc |-> "idle", todo |-> {}, before |-> {}]

\* shell, db: the two promises of the install handler ("none" before the
\* event); skip: self.skipWaiting() was called
IdleInstall == [pc |-> "idle", shell |-> "none", db |-> "none", skip |-> FALSE]

\* caches.keys()
CacheKeys == {n \in CacheNames : caches[n] # None}

\* caches.open(name) creates the cache when there is none
Opened(cs, name) == IF cs[name] = None THEN [cs EXCEPT ![name] = Some(EmptyCache)] ELSE cs

----------------------------------------------------------------------------
(* Handler tasks *)

Handlers == 1..MaxHandlers

\* foreign: what other handlers wrote while this task was in flight:
\* "none", "put" (another run updated a quest) or "insert" (a record was added)
IdleTask ==
  [kind |-> "none", pc |-> "idle", data |-> None, qs |-> <<>>, total |-> 0,
   i |-> 0, foreign |-> "none", base |-> None, start |-> None]

\* h wrote Steps or Quests: every other task in flight saw a foreign write
Wrote(f, h, how) ==
  [g \in Handlers |->
     IF g # h /\ f[g].pc # "idle" /\ f[g].foreign # "insert"
     THEN [f[g] EXCEPT !.foreign = how] ELSE f[g]]

Pending(pc) == Cardinality({h \in Handlers : hs[h].pc = pc})

\* the task as updateQuestProgress() finds it when it is called; base is the
\* quests' progress if the run before this one has just finished, start
\* the Quests collection as the run finds it
StartRun(t) ==
  [t EXCEPT !.pc = "getQuests", !.foreign = "none",
            !.base = IF fin # None THEN Some(ProgressView(quests)) ELSE None,
            !.start = Some(quests)]

----------------------------------------------------------------------------
(* The message handler (lines 427-475) *)

\* case 'SAVE_STEPS_DATA': saveToStore(STORES.STEPS, event.data.data) is called
MessageSaveSteps(h) ==
  /\ hs[h].pc = "idle"
  /\ Len(steps) + Pending("saveSteps") < MaxSteps
  /\ \E d \in StepInputs :
       hs' = [hs EXCEPT ![h] = [IdleTask EXCEPT !.kind = "SAVE_STEPS_DATA",
                                               !.pc = "saveSteps", !.data = Some(d)]]
  /\ UNCHANGED <<storeVars, outbox, histVars, resp, cacheVars>>

\* the add of SAVE_STEPS_DATA commits, and .then() calls updateQuestProgress();
\* or it is rejected, and the .then() callback never runs
SaveStepsCommit(h) ==
  /\ hs[h].pc = "saveSteps"
  /\ \E ok \in BOOLEAN :
       IF ok
       THEN /\ steps' = saveToStore(steps, hs[h].data[1])
            /\ hs' = Wrote([hs EXCEPT ![h] = StartRun([@ EXCEPT !.data = None])],
                           h, "insert")
            /\ fin' = None
            /\ covered' = FALSE
       ELSE /\ hs' = [hs EXCEPT ![h] = IdleTask]
            /\ UNCHANGED <<steps, fin, covered>>
  /\ UNCHANGED <<healthData, quests, habits, outbox, idem, resp, cacheVars, ran>>

\* case 'SAVE_HEALTH_DATA': saveToStore(STORES.HEALTH_DATA, event.data.data)
MessageSaveHealth(h) ==
  /\ hs[h].pc = "idle"
  /\ Len(healthData) + Pending("saveHealth") < MaxHealth
  /\ \E d \in HealthInputs :
       hs' = [hs EXCEPT ![h] = [IdleTask EXCEPT !.kind = "SAVE_HEALTH_DATA",
                                               !.pc = "saveHealth", !.data = Some(d)]]
  /\ UNCHANGED <<storeVars, outbox, histVars, resp, cacheVars>>

SaveHealthCommit(h) ==
  /\ hs[h].pc = "saveHealth"
  /\ \E ok \in BOOLEAN :
       healthData' = IF ok THEN saveToStore(healthData, hs[h].data[1]) ELSE healthData
  /\ hs' = [hs EXCEPT ![h] = IdleTask]
  /\ UNCHANGED <<steps, quests, habits, outbox, histVars, resp, cacheVars>>

\* case 'SAVE_QUEST_DATA': saveToStore(STORES.QUESTS, event.data.data)
MessageSaveQuest(h) ==
  /\ hs[h].pc = "idle"
  /\ Len(quests) + Pending("saveQuest") < MaxQuests
  /\ \E d \in QuestInputs :
       hs' = [hs EXCEPT ![h] = [IdleTask EXCEPT !.kind = "SAVE_QUEST_DATA",
                                               !.pc = "saveQuest", !.data = Some(d)]]
  /\ UNCHANGED <<storeVars, outbox, histVars, resp, cacheVars>>

SaveQuestCommit(h) ==
  /\ hs[h].pc = "saveQuest"
  /\ \E ok \in BOOLEAN :
       IF ok
       THEN /\ quests' = saveToStore(quests, hs[h].data[1])
            /\ hs' = Wrote([hs EXCEPT ![h] = IdleTask], h, "insert")
            /\ fin' = None
            /\ covered' = FALSE
       ELSE /\ hs' = [hs EXCEPT ![h] = IdleTask]
            /\ UNCHANGED <<quests, fin, covered>>
  /\ UNCHANGED <<steps, healthData, habits, outbox, idem, resp, cacheVars, ran>>

\* case 'UPDATE_QUEST_PROGRESS': updateQuestProgress() is called
MessageUpdateQuestProgress(h) ==
  /\ hs[h].pc = "idle"
  /\ hs' = [hs EXCEPT ![h] = StartRun([IdleTask EXCEPT !.kind = "UPDATE_QUEST_PROGRESS"])]
  /\ UNCHANGED <<storeVars, outbox, histVars, resp, cacheVars>>

----------------------------------------------------------------------------
(* updateQuestProgress (lines 367-404), one await at a time *)

\* The code that runs, without yielding, from the top of loop iteration i to
\* the next await: quests the loop skips cost no await; the first quest it
\* updates is changed in the local snapshot (lines 381-382) and
\* updateInStore awaits initDB(); with no quest left, line 393 awaits
\* clients.matchAll().
LoopFrom(t, i) ==
  LET j == NextUpdate(t.qs, i)
  IN  IF j = 0
      THEN [t EXCEPT !.pc = "notify", !.i = 0]
      ELSE [t EXCEPT !.pc = "put", !.i = j,
                     !.qs = [@ EXCEPT ![j] = Recomputed(@, t.total)]]

\* the message of lines 395-398
ProgressMessage(t) ==
  [type |-> "QUEST_PROGRESS_UPDATED", totalStepsToday |-> t.total,
   updatedQuests |-> SelectSeq(t.qs, LAMBDA q : q.category = "fitness")]

\* The await the task t is at resolves (ok) or is rejected: the task after it.
\* A rejection, and the ReferenceError of getStepsByDateRange, end the run in
\* the catch of line 401, which only logs: the task is over ("idle").
RunStep(t, ok) ==
  CASE t.pc = "getQuests" ->      \* line 369: await getAllFromStore(STORES.QUESTS)
         IF ok THEN [t EXCEPT !.pc = "getSteps", !.qs = getAllFromStore(quests)]
               ELSE [t EXCEPT !.pc = "idle", !.data = Some("io")]
    [] t.pc = "getSteps" ->       \* lines 370-373: the query of today, and the sum
         LET r == getStepsByDateRange(Today, Today)
         IN  IF ~ok THEN [t EXCEPT !.pc = "idle", !.data = Some("io")]
             ELSE IF r.ok THEN LoopFrom([t EXCEPT !.total = SumSteps(r.value)], 1)
             ELSE [t EXCEPT !.pc = "idle", !.data = Some(r.error)]
    [] t.pc = "put" ->            \* line 387: await updateInStore(STORES.QUESTS, quest)
         IF ok THEN LoopFrom([t EXCEPT !.qs = [@ EXCEPT ![t.i].updatedAt = Now]], t.i + 1)
               ELSE [t EXCEPT !.pc = "idle", !.data = Some("io")]
    [] t.pc = "notify" ->         \* lines 393-399: the broadcast
         [t EXCEPT !.pc = "idle", !.data = Some("none")]

\* A reconciliation that counts instead of deriving: every run that reads the
\* quests bumps the first quest's progress.
RunWrites_counting(t, ok) ==
  IF t.pc = "getQuests" /\ ok /\ quests # <<>>
  THEN [quests EXCEPT ![1].progress = @ + 1]
  ELSE IF t.pc = "put" /\ ok THEN updateInStore(quests, t.i, t.qs[t.i]) ELSE quests

\* A reconciliation that marks the first quest completed as soon as it has
\* read the quests.
RunWrites_early(t, ok) ==
  IF t.pc = "getQuests" /\ ok /\ quests # <<>>
  THEN [quests EXCEPT ![1].completed = TRUE]
  ELSE IF t.pc = "put" /\ ok THEN updateInStore(quests, t.i, t.qs[t.i]) ELSE quests

\* A reconciliation that rewrites the target of the first quest as soon as
\* it has read the quests.
RunWrites_retarget(t, ok) ==
  IF t.pc = "getQuests" /\ ok /\ quests # <<>>
  THEN [quests EXCEPT ![1].target = None]
  ELSE IF t.pc = "put" /\ ok THEN updateInStore(quests, t.i, t.qs[t.i]) ELSE quests

\* The Quests collection after the step: only a put that commits changes it.
RunWrites(t, ok) ==
  IF t.pc = "put" /\ ok THEN updateInStore(quests, t.i, t.qs[t.i]) ELSE quests

\* Where the caller of updateQuestProgress() goes on when the run is over:
\* processHealthData returns to handleSharedData (line 233), a sync function
\* goes on to clients.matchAll() knowing nothing of the run's outcome (the
\* run ended without error exactly if its last step was the broadcast), and
\* a message handler has nothing left to do.
AfterRun(t) ==
  IF t.kind = "SHARE"
  THEN [IdleTask EXCEPT !.kind = t.kind, !.pc = "shareNotify", !.data = t.data]
  ELSE IF t.kind = "SYNC"
  THEN [t EXCEPT !.pc = IF t.data[1].fn = "updateQuestProgress" THEN "settle"
                                                                  ELSE "matchAll",
                 !.data = Some([t.data[1] EXCEPT !.reconciled = Some(t.pc = "notify")])]
  ELSE IdleTask

updateQuestProgress(h) ==
  LET t == hs[h] IN
  /\ t.pc \in {"getQuests", "getSteps", "put", "notify"}
  /\ \E ok \in BOOLEAN :
       LET u == RunStep(t, ok)
           wrote == t.pc = "put" /\ ok
           over == u.pc = "idle"
           f == [hs EXCEPT ![h] = IF over THEN AfterRun(t) ELSE u]
       IN  /\ quests' = RunWrites(t, ok)
           /\ hs' = IF wrote THEN Wrote(f, h, "put") ELSE f
           /\ outbox' = IF t.pc = "notify" THEN outbox \cup {ProgressMessage(t)}
                                           ELSE outbox
           /\ fin' = IF over THEN Some([err |-> u.data[1], clean |-> t.foreign = "none",
                                        second |-> t.base # None /\ t.foreign = "none"])
                     ELSE IF wrote THEN None ELSE fin
           /\ idem' = IF over /\ t.base # None /\ t.foreign = "none"
                      THEN (IF ProgressView(quests') = t.base[1] /\ idem # "differ"
                            THEN "same" ELSE "differ")
                      ELSE idem
           /\ covered' = IF over /\ u.data[1] # "io" /\ t.foreign # "insert"
                         THEN TRUE ELSE covered
  /\ UNCHANGED <<steps, healthData, habits, ran, resp, cacheVars>>

----------------------------------------------------------------------------
(* The specification of the store, the messages and the reconciliation *)

Init ==
  /\ steps = <<>>
  /\ healthData = <<>>
  /\ quests = <<>>
  /\ habits = <<>>
  /\ hs = [h \in Handlers |-> IdleTask]
  /\ outbox = {}
  /\ fin = None
  /\ idem = "unchecked"
  /\ covered = FALSE
  /\ resp = None
  /\ caches = [n \in CacheNames |-> IF n = CACHE_NAME THEN Some(EmptyCache) ELSE None]
  /\ puts = {}
  /\ act = IdleActivate
  /\ inst = IdleInstall
  /\ ran = None

Next ==
  \E h \in Handlers :
    \/ MessageSaveSteps(h)
    \/ SaveStepsCommit(h)
    \/ MessageSaveHealth(h)
    \/ SaveHealthCommit(h)
    \/ MessageSaveQuest(h)
    \/ SaveQuestCommit(h)
    \/ MessageUpdateQuestProgress(h)
    \/ updateQuestProgress(h)

Spec == Init /\ [][Next]_vars

----------------------------------------------------------------------------
(* The health/steps API: handleHealthAPI (lines 254-305) *)

Methods == {"GET", "POST", "PUT"}
Paths == {"/api/steps", "/api/health"}

\* url.pathname.includes('/steps'), url.pathname.includes('/health')
IncludesSteps(path) == path = "/api/steps"
IncludesHealth(path) == path = "/api/health"

\* lines 259, 281: method === 'GET', method === 'POST'
IsGet(method) == method = "GET"
IsPost_notGet(method) == method # "GET"
IsPost(method) == method = "POST"

\* The bodies a client may send: a step record for each date, a reading, a
\* document that is a number, an object that is not closed, and a word.
StepBodies ==
  { ObjectText(<<Member(<<"d", "a", "t", "e">>, Quoted(d)), Member(STEPS, <<"1">>)>>) :
      d \in Dates }
HealthBodies ==
  { ObjectText(<<Member(<<"t", "y", "p", "e">>, Quoted(SLEEP)),
                 Member(<<"v", "a", "l", "u", "e">>, <<"7">>)>>) }
OtherBodies ==
  { <<"5">>, <<"{">> \o Member(STEPS, <<"1">>), <<"a">> }

\* A request: the query parameters and the body are None when missing.
ApiRequests ==
  { [method |-> "GET", path |-> "/api/steps", startDate |-> s, endDate |-> e,
     body |-> None] :
       s \in {None, Some(Day1), Some(Day2)}, e \in {None, Some(Day2), Some(Day3)} }
  \cup
  { [method |-> "GET", path |-> "/api/health", startDate |-> None, endDate |-> None,
     body |-> None] }
  \cup
  { [method |-> m, path |-> "/api/steps", startDate |-> None, endDate |-> None,
     body |-> None] : m \in Methods \ {"GET", "POST"} }
  \cup
  { [method |-> m, path |-> "/api/health", startDate |-> None, endDate |-> None,
     body |-> Some(t)] : m \in Methods \ {"GET", "POST"}, t \in HealthBodies }
  \cup
  { [method |-> "POST", path |-> "/api/steps", startDate |-> None, endDate |-> None,
     body |-> Some(t)] : t \in StepBodies \cup OtherBodies }
  \cup
  { [method |-> "POST", path |-> "/api/health", startDate |-> None, endDate |-> None,
     body |-> Some(t)] : t \in HealthBodies \cup OtherBodies }

\* line 282: request.json() reads the body and hands it to JSON.parse; a
\* missing body reads as the empty text
RequestJson_lenient(body) ==
  Bind(JSONParse(IF body = None THEN <<>> ELSE body[1]),
       LAMBDA p : IF p.ok THEN p ELSE [ok |-> TRUE, value |-> Obj(<<>>)])
RequestJson(body) == JSONParse(IF body = None THEN <<>> ELSE body[1])

\* line 286: JSON.stringify({ success: true }); line 300: JSON.stringify({
\* error: error.message }); line 297: the text 'Not Found'
SuccessBody == [success |-> TRUE]
ErrorBody == [error |-> "message"]
NotFoundBody == "Not Found"

\* new Response(body, {status}): seen is the collection the body was read
\* from, as it was when it was read; io tells a rejected store operation
Response(req, status, body, seen, io) ==
  Some([req |-> req, status |-> status, body |-> body, seen |-> seen, io |-> io])

\* startDate && endDate
BothDates(req) == req.startDate # None /\ req.endDate # None

\* A request arrives and the handler runs to its first await.  A GET goes to
\* its store read and a POST to request.json(); any other method falls
\* through to the 404 of line 297.
ApiRequest(h) ==
  /\ hs[h].pc = "idle"
  /\ \E req \in ApiRequests :
       CASE IsGet(req.method) ->
              /\ hs' = [hs EXCEPT ![h] = [IdleTask EXCEPT !.kind = "API", !.pc = "apiRead",
                                                         !.data = Some(req)]]
              /\ UNCHANGED resp
         [] IsPost(req.method) ->
              /\ RequestJson(req.body).ok =>
                   IF IncludesSteps(req.path)
                   THEN Len(steps) + Pending("apiJson") + Pending("apiSave") < MaxSteps
                   ELSE Len(healthData) + Pending("apiJson") + Pending("apiSave") < MaxHealth
              /\ hs' = [hs EXCEPT ![h] = [IdleTask EXCEPT !.kind = "API", !.pc = "apiJson",
                                                         !.data = Some(req)]]
              /\ UNCHANGED resp
         [] OTHER ->
              /\ resp' = Response(req, 404, NotFoundBody, <<>>, FALSE)
              /\ UNCHANGED hs
  /\ UNCHANGED <<storeVars, outbox, histVars, cacheVars>>

\* line 282: request.json() settles.  A body that is no JSON throws a
\* SyntaxError and the catch of line 298 answers 500; otherwise the handler
\* goes on to saveToStore.
ApiJson(h) ==
  /\ hs[h].pc = "apiJson"
  /\ IF RequestJson(hs[h].data[1].body).ok
     THEN /\ hs' = [hs EXCEPT ![h].pc = "apiSave"]
          /\ UNCHANGED resp
     ELSE /\ resp' = Response(hs[h].data[1], 500, ErrorBody, <<>>, FALSE)
          /\ hs' = [hs EXCEPT ![h] = IdleTask]
  /\ UNCHANGED <<storeVars, outbox, histVars, cacheVars>>

\* the response to a GET once its store read has resolved (ok) or was rejected
GetResponse(req, ok) ==
  IF IncludesSteps(req.path)
  THEN IF BothDates(req)
       THEN LET r == getStepsByDateRange(req.startDate[1], req.endDate[1])
            IN  IF ~ok THEN Response(req, 500, ErrorBody, <<>>, TRUE)
                ELSE IF r.ok THEN Response(req, 200, r.value, steps, FALSE)
                ELSE Response(req, 500, ErrorBody, <<>>, FALSE)
       ELSE IF ok THEN Response(req, 200, getAllFromStore(steps), steps, FALSE)
                  ELSE Response(req, 500, ErrorBody, <<>>, TRUE)
  ELSE IF IncludesHealth(req.path)
  THEN IF ok THEN Response(req, 200, getAllFromStore(healthData), healthData, FALSE)
             ELSE Response(req, 500, ErrorBody, <<>>, TRUE)
  ELSE Response(req, 404, NotFoundBody, <<>>, FALSE)

\* lines 259-280: the read of a GET resolves or is rejected
ApiRead(h) ==
  /\ hs[h].pc = "apiRead"
  /\ \E ok \in BOOLEAN : resp' = GetResponse(hs[h].data[1], ok)
  /\ hs' = [hs EXCEPT ![h] = IdleTask]
  /\ UNCHANGED <<storeVars, outbox, histVars, cacheVars>>

\* lines 284-294: the saveToStore of a POST commits or is rejected; store.add
\* throws on data that is no object
ApiSave(h) ==
  LET req == hs[h].data[1] IN
  /\ hs[h].pc = "apiSave"
  /\ \E ok \in BOOLEAN, data \in {RequestJson(req.body).value} :
       IF ~ok \/ ~CanStore(data)
       THEN /\ resp' = Response(req, 500, ErrorBody, <<>>, ~ok)
            /\ hs' = [hs EXCEPT ![h] = IdleTask]
            /\ UNCHANGED <<steps, healthData, fin, covered>>
       ELSE IF IncludesSteps(req.path)
       THEN /\ steps' = saveToStore(steps, Raw(data))
            /\ resp' = Response(req, 200, SuccessBody, <<>>, FALSE)
            /\ hs' = Wrote([hs EXCEPT ![h] = IdleTask], h, "insert")
            /\ fin' = None
            /\ covered' = FALSE
            /\ UNCHANGED healthData
       ELSE /\ healthData' = saveToStore(healthData, Raw(data))
            /\ resp' = Response(req, 200, SuccessBody, <<>>, FALSE)
            /\ hs' = [hs EXCEPT ![h] = IdleTask]
            /\ UNCHANGED <<steps, fin, covered>>
  /\ UNCHANGED <<quests, habits, outbox, idem, cacheVars, ran>>

NextApi ==
  \E h \in Handlers :
    \/ ApiRequest(h)
    \/ ApiJson(h)
    \/ ApiRead(h)
    \/ ApiSave(h)

SpecApi == Init /\ [][NextApi]_vars

----------------------------------------------------------------------------
(* The activate handler (lines 148-161) *)

\* An activate handler that was never told of the health cache.
IsOldCache_two(key) == key # CACHE_NAME /\ key # DATA_CACHE_NAME

\* line 153: key !== CACHE_NAME && key !== DATA_CACHE_NAME && key !== HEALTH_CACHE_NAME
IsOldCache(key) == key # CACHE_NAME /\ key # DATA_CACHE_NAME /\ key # HEALTH_CACHE_NAME

\* the activate event: caches.keys() is called (before: the caches there are)
ActivateEvent ==
  /\ act.pc = "idle"
  /\ act' = [pc |-> "keys", todo |-> {}, before |-> CacheKeys]
  /\ UNCHANGED <<storeVars, hs, outbox, histVars, resp, caches, puts, inst>>

\* caches.keys() resolves: caches.delete(key) is called for every old key of
\* the list, and Promise.all waits for all of them
ActivateKeys ==
  /\ act.pc = "keys"
  /\ LET todo == {key \in CacheKeys : IsOldCache(key)}
     IN  act' = [act EXCEPT !.pc = IF todo = {} THEN "done" ELSE "deleting",
                            !.todo = todo]
  /\ UNCHANGED <<storeVars, hs, outbox, histVars, resp, caches, puts, inst>>

\* one caches.delete(key) is carried out; after the last, waitUntil's promise
\* is fulfilled
ActivateDelete ==
  /\ act.pc = "deleting"
  /\ \E key \in act.todo :
       /\ caches' = [caches EXCEPT ![key] = None]
       /\ act' = [act EXCEPT !.todo = @ \ {key},
                             !.pc = IF act.todo = {key} THEN "done" ELSE "deleting"]
  /\ UNCHANGED <<storeVars, hs, outbox, histVars, resp, puts, inst>>

----------------------------------------------------------------------------
(* The fetch handler, generic API branch (lines 179-195) *)

Bodies == {"a", "b"}

\* the requests to the generic API: method and URL
FetchRequests ==
  { [method |-> "GET", url |-> u] : u \in Urls } \cup
  { [method |-> "POST", url |-> "/api/quests"] }

\* what the network may answer to a request
LiveResponses(req) == [url : {req.url}, status : {200, 404}, body : Bodies]

\* A handler that stores whatever the network answered.
ShouldCache_always(response) == TRUE

\* line 185: response.status === 200
ShouldCache(response) == response.status = 200

\* cache.match(event.request): only a GET request matches an entry; the
\* entries are stored under the URL alone (line 186), that is as GET requests
CacheMatchRequest(content, req) ==
  IF req.method = "GET" THEN content[req.url] ELSE None

\* what the handler answered: response is what it returned (None: undefined),
\* live what the network answered (None: the fetch failed), stored the entry
\* the data cache held for the URL when the handler read it, putIssued
\* whether the handler called cache.put
Answer(req, response, live, stored, putIssued) ==
  Some([req |-> req, response |-> response, live |-> live, stored |-> stored,
        putIssued |-> putIssued])

\* a request to /api/..., not health or steps: caches.open(DATA_CACHE_NAME)
FetchGeneric(h) ==
  /\ hs[h].pc = "idle"
  /\ \E req \in FetchRequests :
       hs' = [hs EXCEPT ![h] = [IdleTask EXCEPT !.kind = "FETCH", !.pc = "open",
                                               !.data = Some(req)]]
  /\ UNCHANGED <<storeVars, outbox, histVars, resp, cacheVars>>

\* the cache is open (and created if there was none): fetch(event.request)
CacheOpened(h) ==
  /\ hs[h].pc = "open"
  /\ caches' = Opened(caches, DATA_CACHE_NAME)
  /\ hs' = [hs EXCEPT ![h].pc = "fetch"]
  /\ UNCHANGED <<storeVars, outbox, histVars, resp, puts, act, inst>>

\* the fetch resolves with a response, which is returned, after cache.put was
\* called (and not awaited) if its status is 200; or the fetch is rejected
\* and the catch calls cache.match(event.request)
FetchSettled(h) ==
  LET req == hs[h].data[1] IN
  /\ hs[h].pc = "fetch"
  /\ \/ \E r \in LiveResponses(req) :
          /\ puts' = IF ShouldCache(r) THEN puts \cup {[url |-> req.url, response |-> r]}
                                       ELSE puts
          /\ resp' = Answer(req, Some(r), Some(r), None, ShouldCache(r))
          /\ hs' = [hs EXCEPT ![h] = IdleTask]
     \/ /\ hs' = [hs EXCEPT ![h].pc = "match"]
        /\ UNCHANGED <<puts, resp>>
  /\ UNCHANGED <<storeVars, outbox, histVars, caches, act, inst>>

\* cache.match resolves: its result is returned
CacheMatched(h) ==
  LET req == hs[h].data[1]
      content == caches[DATA_CACHE_NAME][1]
  IN  /\ hs[h].pc = "match"
      /\ resp' = Answer(req, CacheMatchRequest(content, req), None, content[req.url], FALSE)
      /\ hs' = [hs EXCEPT ![h] = IdleTask]
      /\ UNCHANGED <<storeVars, outbox, histVars, cacheVars>>

\* a cache.put that was called is carried out
CachePut ==
  /\ \E p \in puts :
       /\ caches' = [caches EXCEPT ![DATA_CACHE_NAME] =
                       Some([@[1] EXCEPT ![p.url] = Some(p.response)])]
       /\ puts' = puts \ {p}
  /\ UNCHANGED <<storeVars, hs, outbox, histVars, resp, act, inst>>

\* a fetch handler opens its cache (lines 182 and 199) while the activation
\* is under way
FetchOpensCache ==
  /\ \E name \in {CACHE_NAME, DATA_CACHE_NAME} :
       /\ caches[name] = None
       /\ caches' = Opened(caches, name)
  /\ UNCHANGED <<storeVars, hs, outbox, histVars, resp, puts, act, inst>>

InitQuiet ==
  /\ steps = <<>>
  /\ healthData = <<>>
  /\ quests = <<>>
  /\ habits = <<>>
  /\ hs = [h \in Handlers |-> IdleTask]
  /\ outbox = {}
  /\ fin = None
  /\ idem = "unchecked"
  /\ covered = FALSE
  /\ resp = None
  /\ puts = {}
  /\ act = IdleActivate
  /\ inst = IdleInstall
  /\ ran = None

\* the activation, over every set of caches an earlier version may have left
InitActivate ==
  /\ InitQuiet
  /\ caches \in [CacheNames -> {None, Some(EmptyCache)}]

NextActivate ==
  \/ ActivateEvent
  \/ ActivateKeys
  \/ ActivateDelete
  \/ FetchOpensCache

SpecActivate == InitActivate /\ [][NextActivate]_vars

\* the generic API requests of an active worker
InitFetch ==
  /\ InitQuiet
  /\ caches = [n \in CacheNames |-> IF n = CACHE_NAME THEN Some(EmptyCache) ELSE None]

NextFetch ==
  \/ CachePut
  \/ \E h \in Handlers :
       \/ FetchGeneric(h)
       \/ CacheOpened(h)
       \/ FetchSettled(h)
       \/ CacheMatched(h)

SpecFetch == InitFetch /\ [][NextFetch]_vars

----------------------------------------------------------------------------
(* The share target: the forms a POST to /share-data may carry *)

MaxLines == 3      \* lines of a comma-delimited text
MaxPhrases == 2    \* phrases of a free text
MaxElements == 2   \* elements of a JSON array

\* Lines of delimited text: two of the form date,integer, a header, a line
\* with blanks and a number followed by a letter, a line without a comma, a
\* line of three fields whose second is no number, and an empty line
CsvLines ==
  { Day1 \o <<",", "5", "0", "0">>,
    Day2 \o <<",", "7", "5", "0">>,
    <<"d", "a", "t", "e", ",", "s", "t", "e", "p", "s">>,
    <<" ">> \o Day3 \o <<" ", ",", " ", "7", "a">>,
    <<"a">>,
    Day1 \o <<",", "a", ",", "5">>,
    <<>> }

CsvTexts == {Join(ls, <<"\n">>) : ls \in UpTo(CsvLines, MaxLines)}

\* Phrases of free text: a number of no, one or six digits, white space or
\* none, and the step word in lower case or, with its plural, capitalised,
\* another word or none
FreePhrases ==
  { d \o b \o w :
      d \in {<<>>, <<"5">>, <<"1", "2", "3", "4", "5", "6">>},
      b \in {<<>>, <<" ", "\n">>},
      w \in {<<>>, <<"s", "t", "e", "p">>, <<"S", "t", "e", "p", "s">>, <<"a">>} }

FreeTexts == {Join(ps, <<" ">>) : ps \in UpTo(FreePhrases, MaxPhrases)}

\* every object with or without a type ('steps' or 'sleep'), steps (0 or 5),
\* a value (7) and a date
JsonObjects ==
  { ObjectText(ty \o st \o va \o da) :
      ty \in {<<>>, <<Member(<<"t", "y", "p", "e">>, Quoted(STEPS))>>,
                    <<Member(<<"t", "y", "p", "e">>, Quoted(SLEEP))>>},
      st \in {<<>>, <<Member(STEPS, <<"0">>)>>, <<Member(STEPS, <<"5">>)>>},
      va \in {<<>>, <<Member(<<"v", "a", "l", "u", "e">>, <<"7">>)>>},
      da \in {<<>>, <<Member(<<"d", "a", "t", "e">>, Quoted(Day1))>>} }

\* an object that names its source and carries metadata
JsonTagged ==
  ObjectText(<<Member(STEPS, <<"5">>),
               Member(<<"s", "o", "u", "r", "c", "e">>, Quoted(<<"a">>)),
               Member(<<"m", "e", "t", "a", "d", "a", "t", "a">>,
                      ObjectText(<<Member(<<"a">>, <<"7">>)>>))>>)

\* what an array may hold: a step count, a typed reading, a bare value, an
\* empty object and a number
JsonElements ==
  { ObjectText(<<Member(STEPS, <<"5">>)>>),
    ObjectText(<<Member(<<"t", "y", "p", "e">>, Quoted(SLEEP)),
                 Member(<<"v", "a", "l", "u", "e">>, <<"7">>)>>),
    ObjectText(<<Member(<<"v", "a", "l", "u", "e">>, <<"7">>)>>),
    ObjectText(<<>>),
    <<"5">> }

JsonArrays == {ArrayText(<<>>)} \cup {ArrayText(es) : es \in UpTo(JsonElements, MaxElements)}

\* scalars, and texts that JSON.parse rejects
JsonScalars ==
  { <<"5", "0", "0">>, <<"0">>, <<"-", "5">>, <<"0", "7">>, <<"-">>,
    Quoted(<<"a">>), Quoted(<<>>), <<"{">>, <<"{", "\"", "a", "\"", "}">>,
    <<" ">> \o ObjectText(<<Member(<<"a">>, <<"7">>)>>) \o <<"\n">> }

JsonTexts == JsonObjects \cup {JsonTagged} \cup JsonArrays \cup JsonScalars

ShareTexts == CsvTexts \cup FreeTexts \cup JsonTexts

\* the files a form may carry in its healthData field
ShareFiles ==
  { Day1 \o <<",", "5", "0", "0", "\n">> \o Day2 \o <<",", "7", "5", "0">>,
    ObjectText(<<Member(STEPS, <<"5">>)>>),
    <<"a">> }

\* formData.get('text') and formData.get('healthData'), None for null
ShareForms ==
  [text : {None, Some(<<>>)} \cup {Some(t) : t \in ShareTexts}, file : {None}]
    \cup [text : {None, Some(<<"a">>), Some(<<"5", " ", "s", "t", "e", "p", "s">>)},
          file : {Some(f) : f \in ShareFiles}]

\* what the store may hold when the POST arrives
ShareStores ==
  { [steps |-> <<>>, healthData |-> <<>>, quests |-> <<>>, habits |-> <<>>],
    [steps |-> <<[date |-> Today, steps |-> 1, timestamp |-> Now]>>,
     healthData |-> <<>>,
     quests |-> <<[category |-> "fitness", type |-> Undefined,
                   target |-> Some([steps |-> 2]), progress |-> 0,
                   completed |-> FALSE, timestamp |-> Now,
                   updatedAt |-> Undefined]>>,
     habits |-> <<>>] }

----------------------------------------------------------------------------
(* handleSharedData (lines 208-251) and processHealthData (lines 344-364) *)

\* lines 218-230: JSON.parse first, parseHealthDataText when it throws
ParseShared(text) ==
  Bind(JSONParse(text), LAMBDA j : IF j.ok THEN j.value ELSE parseHealthDataText(text))

\* lines 216-231: the file when the form has one, else the text when it is
\* not empty, else healthData stays null
SharedPayload(form) ==
  IF form.file # None THEN Some(ParseShared(form.file[1]))
  ELSE IF form.text # None /\ form.text[1] # <<>> THEN Some(ParseShared(form.text[1]))
  ELSE None

\* lines 345-347: a payload that is not an array is wrapped
Items(payload) == IF payload.t = "array" THEN payload.v ELSE <<payload>>

\* A reading with a value and no steps is a step count as well
IsStepsItem_value(item) ==
  \/ Has(item, "type") /\ item.v.type.t = "string" /\ item.v.type.v = STEPS
  \/ Has(item, "steps")
  \/ Has(item, "value")

\* line 350: item.type === 'steps' || item.steps !== undefined
IsStepsItem(item) ==
  \/ Has(item, "type") /\ item.v.type.t = "string" /\ item.v.type.v = STEPS
  \/ Has(item, "steps")

\* item[k] || otherwise
PropertyOr(item, k, otherwise) ==
  IF Has(item, k) /\ Truthy(item.v[k]) THEN Raw(item.v[k]) ELSE otherwise

\* lines 351-356: the record built for a steps item
StepsRecord(item) ==
  [date |-> PropertyOr(item, "date", Today),
   steps |-> PropertyOr(item, "steps", PropertyOr(item, "value", 0)),
   source |-> PropertyOr(item, "source", SHARED),
   metadata |-> PropertyOr(item, "metadata", <<>>)]

ShareTask(form) ==
  [IdleTask EXCEPT !.kind = "SHARE", !.pc = "formData",
                   !.data = Some([form |-> form, payload |-> None,
                                  before |-> [steps |-> steps, healthData |-> healthData,
                                              quests |-> quests, habits |-> habits]])]

\* A handler that redirects whatever has happened
ShareResponse_redirect(t, status) ==
  Some([req |-> t.data[1].form, status |-> 302, payload |-> t.data[1].payload,
        before |-> t.data[1].before])

\* the response of handleSharedData, with what the request carried
ShareResponse(t, status) ==
  Some([req |-> t.data[1].form, status |-> status, payload |-> t.data[1].payload,
        before |-> t.data[1].before])

\* a POST to /share-data arrives (lines 167-170); one is handled at a time
ShareRequest(h) ==
  /\ \A g \in Handlers : hs[g].pc = "idle"
  /\ resp = None
  /\ \E form \in ShareForms : hs' = [hs EXCEPT ![h] = ShareTask(form)]
  /\ UNCHANGED <<storeVars, outbox, histVars, resp, cacheVars>>

\* lines 210-233: the form is read (or the read is rejected), the payload is
\* parsed, and processHealthData runs to its first await: the insert of the
\* first item, or updateQuestProgress() when there is no item. A payload
\* that is falsy is skipped and the redirect is returned.
ShareFormData(h) ==
  LET t == hs[h] IN
  /\ t.pc = "formData"
  /\ \E ok \in BOOLEAN, p \in {SharedPayload(t.data[1].form)} :
       LET u == [t EXCEPT !.data = Some([@[1] EXCEPT !.payload = p])]
       IN  IF ~ok
           THEN hs' = [hs EXCEPT ![h] = IdleTask] /\ resp' = ShareResponse(t, 500)
           ELSE IF p = None \/ ~Truthy(p[1])
           THEN hs' = [hs EXCEPT ![h] = IdleTask] /\ resp' = ShareResponse(u, 302)
           ELSE IF Items(p[1]) = <<>>
           THEN hs' = [hs EXCEPT ![h] = StartRun(u)] /\ resp' = resp
           ELSE hs' = [hs EXCEPT ![h] = [u EXCEPT !.pc = "item", !.i = 1]] /\ resp' = resp
  /\ UNCHANGED <<storeVars, outbox, histVars, cacheVars>>

\* lines 349-359: the insert of item i commits, and the loop goes on to the
\* next item or to updateQuestProgress(); or it throws or is rejected, and
\* the catch of line 247 answers 500
ShareItem(h) ==
  LET t == hs[h]
      item == Items(t.data[1].payload[1])[t.i]
      more == t.i < Len(Items(t.data[1].payload[1]))
  IN
  /\ t.pc = "item"
  /\ \E ok \in BOOLEAN :
       IF ok /\ CanStore(item)
       THEN /\ steps' = IF IsStepsItem(item) THEN saveToStore(steps, StepsRecord(item))
                                             ELSE steps
            /\ healthData' = IF IsStepsItem(item) THEN healthData
                                                  ELSE saveToStore(healthData, Raw(item))
            /\ hs' = [hs EXCEPT ![h] = IF more THEN [t EXCEPT !.i = t.i + 1]
                                                ELSE StartRun(t)]
            /\ fin' = None
            /\ covered' = FALSE
            /\ resp' = resp
       ELSE /\ hs' = [hs EXCEPT ![h] = IdleTask]
            /\ resp' = ShareResponse(t, 500)
            /\ UNCHANGED <<steps, healthData, fin, covered>>
  /\ UNCHANGED <<quests, habits, outbox, idem, cacheVars, ran>>

\* lines 236-246: after processHealthData, the clients are told and the
\* redirect is returned
ShareNotify(h) ==
  LET t == hs[h] IN
  /\ t.pc = "shareNotify"
  /\ outbox' = outbox \cup {[type |-> "HEALTH_DATA_RECEIVED", data |-> t.data[1].payload[1]]}
  /\ resp' = ShareResponse(t, 302)
  /\ hs' = [hs EXCEPT ![h] = IdleTask]
  /\ UNCHANGED <<storeVars, histVars, cacheVars>>

InitShare ==
  /\ \E s \in ShareStores :
       /\ steps = s.steps
       /\ healthData = s.healthData
       /\ quests = s.quests
       /\ habits = s.habits
  /\ hs = [h \in Handlers |-> IdleTask]
  /\ outbox = {}
  /\ fin = None
  /\ idem = "unchecked"
  /\ covered = FALSE
  /\ resp = None
  /\ caches = [n \in CacheNames |-> IF n = CACHE_NAME THEN Some(EmptyCache) ELSE None]
  /\ puts = {}
  /\ act = IdleActivate
  /\ inst = IdleInstall
  /\ ran = None

NextShare ==
  \E h \in Handlers :
    \/ ShareRequest(h)
    \/ ShareFormData(h)
    \/ ShareItem(h)
    \/ updateQuestProgress(h)
    \/ ShareNotify(h)

SpecShare == InitShare /\ [][NextShare]_vars

----------------------------------------------------------------------------
(* Deferred work: the sync handler (lines 407-424), the periodicsync handler
   (lines 615-621) and the functions they pass to event.waitUntil *)

SyncTags ==
  {"background-sync-quests", "background-sync-habits", "background-sync-health",
   "update-quest-progress"}

PeriodicTags == {"daily-quest-check", "health-data-sync"}

\* lines 409-422: the switch over event.tag
SyncFunction(tag) ==
  CASE tag = "background-sync-quests" -> "syncQuests"
    [] tag = "background-sync-habits" -> "syncHabits"
    [] tag = "background-sync-health" -> "syncHealthData"
    [] tag = "update-quest-progress" -> "updateQuestProgress"

\* lines 616-620
PeriodicFunction(tag) ==
  CASE tag = "daily-quest-check" -> "checkDailyQuests"
    [] tag = "health-data-sync" -> "syncHealthData"

\* the functions that start with await updateQuestProgress() (lines 481, 516,
\* 627), and updateQuestProgress itself
Reconciles(fn) == fn # "syncHabits"

\* the message a sync function posts after clients.matchAll() (lines 484-489,
\* 499-504, 519-524, 630-635)
CompletionMessage(fn) ==
  CASE fn = "syncQuests" ->
         [type |-> "BACKGROUND_SYNC_COMPLETE", data |-> [type |-> "quests", success |-> TRUE]]
    [] fn = "syncHabits" ->
         [type |-> "BACKGROUND_SYNC_COMPLETE", data |-> [type |-> "habits", success |-> TRUE]]
    [] fn = "syncHealthData" ->
         [type |-> "BACKGROUND_SYNC_COMPLETE", data |-> [type |-> "health", success |-> TRUE]]
    [] fn = "checkDailyQuests" ->
         [type |-> "DAILY_QUEST_CHECK", data |-> [timestamp |-> Now]]

\* the task of fn as it is when the handler returns: at the first await of
\* updateQuestProgress(), or at clients.matchAll()
DeferredTask(tag, fn) ==
  Bind([IdleTask EXCEPT !.kind = "SYNC",
                        !.data = Some([tag |-> tag, fn |-> fn, reconciled |-> None])],
       LAMBDA t : IF Reconciles(fn) THEN StartRun(t) ELSE [t EXCEPT !.pc = "matchAll"])

\* the run that ended: what it was, how its reconciliation ended (None if it
\* has none), how its clients.matchAll() ended and the message it posted
\* (None if it posted none)
Ended(t, matchAll, sent) ==
  Some([tag |-> t.data[1].tag, fn |-> t.data[1].fn,
        reconciled |-> t.data[1].reconciled, matchAll |-> matchAll, sent |-> sent])

\* the deferred-work runs in flight
Deferred == Cardinality({h \in Handlers : hs[h].kind = "SYNC"})

SyncEvent(h) ==
  /\ hs[h].pc = "idle"
  /\ Deferred < MaxDeferred
  /\ \E tag \in SyncTags : hs' = [hs EXCEPT ![h] = DeferredTask(tag, SyncFunction(tag))]
  /\ UNCHANGED <<storeVars, outbox, histVars, resp, cacheVars>>

PeriodicSyncEvent(h) ==
  /\ hs[h].pc = "idle"
  /\ Deferred < MaxDeferred
  /\ \E tag \in PeriodicTags :
       hs' = [hs EXCEPT ![h] = DeferredTask(tag, PeriodicFunction(tag))]
  /\ UNCHANGED <<storeVars, outbox, histVars, resp, cacheVars>>

\* clients.matchAll() resolves and the message is posted to every client, or
\* it is rejected and the catch of the function logs the error
SyncBroadcast(h) ==
  LET t == hs[h] IN
  /\ t.pc = "matchAll"
  /\ \E ok \in BOOLEAN :
       /\ outbox' = IF ok THEN outbox \cup {CompletionMessage(t.data[1].fn)} ELSE outbox
       /\ ran' = IF ok THEN Ended(t, "resolved", Some(CompletionMessage(t.data[1].fn)))
                       ELSE Ended(t, "rejected", None)
  /\ hs' = [hs EXCEPT ![h] = IdleTask]
  /\ UNCHANGED <<storeVars, fin, idem, covered, resp, cacheVars>>

\* line 421: the promise of updateQuestProgress(), which the handler passed
\* to waitUntil, is fulfilled; the run has posted its message or has logged
\* its error
SyncSettle(h) ==
  LET t == hs[h] IN
  /\ t.pc = "settle"
  /\ ran' = IF t.data[1].reconciled = Some(TRUE)
             THEN Ended(t, "resolved", Some(ProgressMessage(t)))
             ELSE Ended(t, "not called", None)
  /\ hs' = [hs EXCEPT ![h] = IdleTask]
  /\ UNCHANGED <<storeVars, outbox, fin, idem, covered, resp, cacheVars>>

NextSync ==
  \E h \in Handlers :
    \/ SyncEvent(h)
    \/ PeriodicSyncEvent(h)
    \/ updateQuestProgress(h)
    \/ SyncBroadcast(h)
    \/ SyncSettle(h)

SpecSync == InitShare /\ [][NextSync]_vars

----------------------------------------------------------------------------
(* The install handler (lines 133-145) *)

\* what cache.addAll stores for a file
ShellResponse(u) == [url |-> u, status |-> 200, body |-> "shell"]

\* cache.addAll(FILES_TO_CACHE) is all or nothing: every file is stored
AddAll(content) ==
  [u \in DOMAIN content |-> IF u \in FILES_TO_CACHE THEN Some(ShellResponse(u))
                                                    ELSE content[u]]

\* Promise.all is fulfilled when both promises are, and rejected when one is
AllDone_either(i) == i.shell = "done" \/ i.db = "done"
AllDone(i) == i.shell = "done" /\ i.db = "done"
OneFailed(i) == i.shell = "failed" \/ i.db = "failed"

\* The install event is dispatched: the handler passes Promise.all([...]) to
\* waitUntil, with caches.open(CACHE_NAME) and indexedDB.open under way, and
\* calls self.skipWaiting() (line 144) before it returns.
InstallEvent ==
  /\ inst.pc = "idle"
  /\ inst' = [pc |-> "installing", shell |-> "open", db |-> "pending", skip |-> TRUE]
  /\ UNCHANGED <<storeVars, hs, outbox, histVars, resp, caches, puts, act>>

\* line 136: caches.open(CACHE_NAME) resolves, and cache.addAll is called
InstallCacheOpened ==
  /\ inst.shell = "open"
  /\ caches' = Opened(caches, CACHE_NAME)
  /\ inst' = [inst EXCEPT !.shell = "addAll"]
  /\ UNCHANGED <<storeVars, hs, outbox, histVars, resp, puts, act>>

\* line 138: cache.addAll(FILES_TO_CACHE) stores every file, or a file
\* cannot be fetched and nothing is stored
InstallAddAll ==
  /\ inst.shell = "addAll"
  /\ \/ /\ caches' = [Opened(caches, CACHE_NAME) EXCEPT ![CACHE_NAME] = Some(AddAll(@[1]))]
        /\ inst' = [inst EXCEPT !.shell = "done"]
     \/ /\ inst' = [inst EXCEPT !.shell = "failed"]
        /\ UNCHANGED caches
  /\ UNCHANGED <<storeVars, hs, outbox, histVars, resp, puts, act>>

\* line 140: initDB() resolves or is rejected
InstallInitDB ==
  /\ inst.db = "pending"
  /\ \E ok \in BOOLEAN : inst' = [inst EXCEPT !.db = IF ok THEN "done" ELSE "failed"]
  /\ UNCHANGED <<storeVars, hs, outbox, histVars, resp, caches, puts, act>>

\* lines 135-142: the promise given to waitUntil settles, and with it the
\* installation: the worker is installed, or it is discarded
InstallSettled ==
  /\ inst.pc = "installing"
  /\ \/ AllDone(inst) /\ inst' = [inst EXCEPT !.pc = "installed"]
     \/ OneFailed(inst) /\ inst' = [inst EXCEPT !.pc = "redundant"]
  /\ UNCHANGED <<storeVars, hs, outbox, histVars, resp, caches, puts, act>>

\* An installed worker for which skipWaiting() was called is activated
\* without waiting for the pages of its predecessor to close.
InstallActivated ==
  /\ inst.pc = "installed"
  /\ inst.skip
  /\ inst' = [inst EXCEPT !.pc = "activated"]
  /\ UNCHANGED <<storeVars, hs, outbox, histVars, resp, caches, puts, act>>

NextInstall ==
  \/ InstallEvent
  \/ InstallCacheOpened
  \/ InstallAddAll
  \/ InstallInitDB
  \/ InstallSettled
  \/ InstallActivated
  \/ FetchOpensCache

\* the installation, over every set of caches an earlier version may have left
SpecInstall == InitActivate /\ [][NextInstall]_vars

----------------------------------------------------------------------------
(* The fetch handler, app shell branch (lines 197-205) *)

\* the requests that no earlier branch takes: a GET and a POST of a file of
\* the list and of a file that is not in it
ShellRequests == [method : {"GET", "POST"}, url : {"/", "/app.js"}]

\* A handler that goes to the network whatever the cache holds
ShellMatch_none(content, req) == None

\* line 200: cache.match(event.request), undefined (None) if nothing matches
ShellMatch(content, req) == CacheMatchRequest(content, req)

\* a request for the app shell arrives: caches.open(CACHE_NAME)
FetchShell(h) ==
  /\ hs[h].pc = "idle"
  /\ \E req \in ShellRequests :
       hs' = [hs EXCEPT ![h] = [IdleTask EXCEPT !.kind = "SHELL", !.pc = "shellOpen",
                                               !.data = Some(req)]]
  /\ UNCHANGED <<storeVars, outbox, histVars, resp, cacheVars>>

\* line 199: the cache is open (and created if there was none), and
\* cache.match(event.request) is called
ShellOpened(h) ==
  /\ hs[h].pc = "shellOpen"
  /\ caches' = Opened(caches, CACHE_NAME)
  /\ hs' = [hs EXCEPT ![h].pc = "shellMatch"]
  /\ UNCHANGED <<storeVars, outbox, histVars, resp, puts, act, inst>>

\* lines 200-201: cache.match resolves: the entry is returned, or there is
\* none and fetch(event.request) is called
ShellMatched(h) ==
  LET req == hs[h].data[1]
      content == caches[CACHE_NAME][1]
  IN  /\ hs[h].pc = "shellMatch"
      /\ IF ShellMatch(content, req) # None
         THEN /\ resp' = Answer(req, ShellMatch(content, req), None,
                                content[req.url], FALSE)
              /\ hs' = [hs EXCEPT ![h] = IdleTask]
         ELSE /\ hs' = [hs EXCEPT ![h] = [@ EXCEPT !.pc = "shellFetch",
                                                   !.qs = <<content[req.url]>>]]
              /\ UNCHANGED resp
      /\ UNCHANGED <<storeVars, outbox, histVars, cacheVars>>

\* line 201: the fetch settles and its outcome is the handler's: the
\* response of the network, or the rejection (None)
ShellFetched(h) ==
  LET req == hs[h].data[1] IN
  /\ hs[h].pc = "shellFetch"
  /\ \E live \in {None} \cup {Some(r) : r \in LiveResponses(req)} :
       resp' = Answer(req, live, live, hs[h].qs[1], FALSE)
  /\ hs' = [hs EXCEPT ![h] = IdleTask]
  /\ UNCHANGED <<storeVars, outbox, histVars, cacheVars>>

\* the worker is installed while pages send requests
NextShell ==
  \/ InstallEvent
  \/ InstallCacheOpened
  \/ InstallAddAll
  \/ InstallInitDB
  \/ InstallSettled
  \/ \E h \in Handlers :
       \/ FetchShell(h)
       \/ ShellOpened(h)
       \/ ShellMatched(h)
       \/ ShellFetched(h)

SpecShell == InitFetch /\ [][NextShell]_vars

----------------------------------------------------------------------------
(* The lifetime of the worker: what the handlers register with the event
   (event.waitUntil, event.respondWith) and what they leave unregistered *)

\* The work of a sync or periodicsync handler is passed to event.waitUntil
\* (lines 411-421, 617-619) and the work of a fetch handler to
\* event.respondWith (lines 169-199); the message handler (lines 427-475)
\* calls saveToStore and updateQuestProgress and returns, registering nothing.
Registered(kind) == kind \in {"SYNC", "API", "SHARE", "FETCH", "SHELL"}

\* the tasks in flight
InFlight == {h \in Handlers : hs[h].pc \notin {"idle", "terminated"}}

\* Once every handler has returned and no event holds a promise, the worker
\* may be stopped: what is still in flight is cut off where it is.
Terminate ==
  /\ InFlight # {}
  /\ \A h \in InFlight : ~Registered(hs[h].kind)
  /\ hs' = [h \in Handlers |-> IF h \in InFlight THEN [hs[h] EXCEPT !.pc = "terminated"]
                                                 ELSE hs[h]]
  /\ UNCHANGED <<storeVars, outbox, histVars, resp, cacheVars>>

\* the worker is started again for the next event
Restart ==
  /\ \E h \in Handlers : hs[h].pc = "terminated"
  /\ hs' = [h \in Handlers |-> IF hs[h].pc = "terminated" THEN IdleTask ELSE hs[h]]
  /\ UNCHANGED <<storeVars, outbox, histVars, resp, cacheVars>>

NextLife ==
  \/ Terminate
  \/ Restart
  \/ \E h \in Handlers :
       \/ MessageSaveSteps(h)
       \/ SaveStepsCommit(h)
       \/ updateQuestProgress(h)
       \/ SyncEvent(h)
       \/ SyncBroadcast(h)
       \/ SyncSettle(h)

SpecLife == InitShare /\ [][NextLife]_vars

----------------------------------------------------------------------------
(* Claims about the reconciliation *)

\* the sum of the steps of all stored Steps records dated today
TotalStepsToday == SumSteps(InRange(steps, Today, Today))

AllIdle == \A h \in Handlers : hs[h].pc = "idle"

\* what a reconciliation is to leave in quest q
Reconciled(q) ==
  /\ q.progress = Min(TotalStepsToday, q.target[1].steps)
  /\ q.completed = (q.progress >= q.target[1].steps)

\* C1: when a run of updateQuestProgress has finished, no store operation of
\* it was rejected and no other handler wrote in between, every stored quest
\* with category fitness or type steps and a step target (0 included) has
\* progress = min(totalStepsToday, target.steps) and completed = (progress >=
\* target.steps).
C1_RunReconcilesQuests ==
  (fin # None /\ fin[1].clean /\ fin[1].err # "io") =>
    \A i \in DOMAIN quests :
      (IsStepQuest(quests[i]) /\ quests[i].target # None) => Reconciled(quests[i])

\* C2: a run of updateQuestProgress that directly follows another run, with no
\* write to Steps or Quests by anyone else in between, leaves every quest's
\* progress and completed as the first run left them.
C2_Idempotent == idem # "differ"

\* C2's case: a second run in succession has just finished over a store that
\* holds steps of today and a step quest with a target.
C2_Witness ==
  /\ fin # None /\ fin[1].second
  /\ idem = "same"
  /\ TotalStepsToday > 0
  /\ \E i \in DOMAIN quests : IsStepQuest(quests[i]) /\ HasStepTarget(quests[i])

\* C3: once all handlers have finished, and a run that started after the
\* latest insert has finished without a rejected store operation, every
\* fitness/steps quest with a step target has progress = min(sum of the steps
\* of all stored Steps records dated today, target.steps).
C3_ConcurrentRunsConverge ==
  (AllIdle /\ covered) =>
    \A i \in DOMAIN quests :
      (IsStepQuest(quests[i]) /\ quests[i].target # None) =>
        quests[i].progress = Min(TotalStepsToday, quests[i].target[1].steps)

\* C4: in every reachable state every quest with a numeric target.steps has
\* progress <= target.steps, and completed exactly when progress >=
\* target.steps.
C4_ProgressBounded ==
  \A i \in DOMAIN quests :
    quests[i].target # None =>
      /\ quests[i].progress <= quests[i].target[1].steps
      /\ quests[i].completed = (quests[i].progress >= quests[i].target[1].steps)

\* The step in which the insert of SAVE_STEPS_DATA settles: the run starts
\* if, and only if, the record is stored by this step
InsertThenRun(h) ==
  (hs[h].pc = "saveSteps" /\ hs'[h].pc # "saveSteps") =>
    IF hs'[h].pc = "getQuests"
    THEN steps' = saveToStore(steps, hs[h].data[1])
    ELSE hs'[h].pc = "idle" /\ steps' = steps

\* The step in which the run that SAVE_STEPS_DATA started has its step query
\* answered: unless the store rejected the query, the run goes on with the
\* sum of the steps stored for today, the record of the message among them
TotalIncludesRecord(h) ==
  (/\ hs[h].kind = "SAVE_STEPS_DATA"
   /\ hs[h].pc = "getSteps"
   /\ hs'[h].pc # "getSteps"
   /\ (fin' = None \/ fin'[1].err # "io")) =>
    /\ hs'[h].pc \in {"put", "notify"}
    /\ hs'[h].total = TotalStepsToday

\* The step in which the insert of SAVE_HEALTH_DATA or SAVE_QUEST_DATA
\* settles: one record is added (none if the insert is rejected), no record
\* stored before changes, and no run starts
SingleWrite(h) ==
  /\ (hs[h].pc = "saveHealth" /\ hs'[h].pc # "saveHealth") =>
       /\ hs'[h].pc = "idle"
       /\ healthData' \in {healthData, saveToStore(healthData, hs[h].data[1])}
       /\ <<steps, quests, habits>>' = <<steps, quests, habits>>
  /\ (hs[h].pc = "saveQuest" /\ hs'[h].pc # "saveQuest") =>
       /\ hs'[h].pc = "idle"
       /\ quests' \in {quests, saveToStore(quests, hs[h].data[1])}
       /\ <<steps, healthData, habits>>' = <<steps, healthData, habits>>

\* C15: SAVE_STEPS_DATA starts the reconciliation only after its insert has
\* committed, and not at all if the insert is rejected, so that the
\* reconciliation's total of today includes the new record; SAVE_HEALTH_DATA
\* and SAVE_QUEST_DATA write one record each, start no reconciliation and
\* change no other record.
C15_InsertThenReconcile ==
  [][\A h \in Handlers :
       InsertThenRun(h) /\ TotalIncludesRecord(h) /\ SingleWrite(h)]_vars

\* where a task is while it runs updateQuestProgress
RunPcs == {"getQuests", "getSteps", "put", "notify"}

\* this step ends the run of handler h in its catch
RunFails(h) ==
  /\ hs[h].pc \in RunPcs
  /\ hs'[h].pc \notin RunPcs
  /\ fin' # None
  /\ fin'[1].err # "none"

\* C18: when a run of updateQuestProgress fails, the error is swallowed (the
\* caller goes on as after any run) and, no other handler having written
\* meanwhile, the Quests collection is exactly as it was when the run
\* started: no quest that the run updated remains modified.
C18_FailedRunLeavesQuests ==
  [][\A h \in Handlers :
       RunFails(h) =>
         /\ hs'[h] = AfterRun(hs[h])
         /\ hs[h].foreign = "none" => quests' = hs[h].start[1]]_vars

\* C18's case: a run has failed over a store that holds steps of today and
\* a step quest whose progress is behind them, and nothing else has written
C18_Witness ==
  /\ fin # None
  /\ fin[1].err # "none"
  /\ fin[1].clean
  /\ TotalStepsToday > 0
  /\ \E i \in DOMAIN quests :
       /\ IsStepQuest(quests[i])
       /\ HasStepTarget(quests[i])
       /\ quests[i].progress < Min(TotalStepsToday, quests[i].target[1].steps)

\* the quests a reconciliation updates: those of lines 377 and 380
Updated(q) == IsStepQuest(q) /\ HasStepTarget(q)

\* C19: after a reconciliation in which no store operation was rejected (and
\* no other handler wrote meanwhile) a QUEST_PROGRESS_UPDATED message has
\* been sent to the connected instances whose updatedQuests are exactly the
\* quests the run updated and whose totalStepsToday is the total it computed.
C19_ProgressMessage ==
  (fin # None /\ fin[1].clean /\ fin[1].err # "io") =>
    \E m \in outbox :
      /\ m.type = "QUEST_PROGRESS_UPDATED"
      /\ m.totalStepsToday = TotalStepsToday
      /\ m.updatedQuests = SelectSeq(quests, Updated)

----------------------------------------------------------------------------
(* Claims about the health/steps API *)

\* C5: GET /api/steps with both startDate and endDate responds 200 with
\* exactly the Steps records whose date d satisfies startDate <= d <= endDate;
\* with either parameter missing it responds 200 with the whole Steps
\* collection (unless the store rejects the read).
C5_GetSteps ==
  (resp # None /\ resp[1].req.method = "GET" /\ IncludesSteps(resp[1].req.path)
     /\ ~resp[1].io) =>
    /\ resp[1].status = 200
    /\ resp[1].body =
         IF BothDates(resp[1].req)
         THEN InRange(resp[1].seen, resp[1].req.startDate[1], resp[1].req.endDate[1])
         ELSE resp[1].seen

\* a POST whose body JSON.parse rejects
UnparsablePost(req) ==
  req.method = "POST" /\ ~JSONParse(IF req.body = None THEN <<>> ELSE req.body[1]).ok

\* the request that handler h serves in this step, None if it serves none:
\* the handler takes a request up, or it goes on with the one it has
Served(h) ==
  IF hs'[h].pc = hs[h].pc THEN None
  ELSE IF hs[h].kind = "API" THEN hs[h].data
  ELSE IF hs'[h].kind = "API" THEN hs'[h].data
  ELSE None

\* the handler h ends its request with this status
Answers(h, status) ==
  (hs[h].kind = "API" /\ hs'[h].kind # "API") =>
    /\ resp' # None
    /\ resp'[1].req = hs[h].data[1]
    /\ resp'[1].status = status

\* C11: a POST to /api/steps or /api/health whose body is not parsable JSON
\* is answered with status 500 and a JSON body that carries an error field,
\* and no step of its handler changes Steps or HealthData.
C11_UnparsablePost ==
  [][\A h \in Handlers :
       (Served(h) # None /\ UnparsablePost(Served(h)[1])) =>
         /\ Answers(h, 500)
         /\ (hs'[h].kind # "API") => "error" \in DOMAIN resp'[1].body
         /\ steps' = steps
         /\ healthData' = healthData]_vars

C11_Witness ==
  /\ resp # None
  /\ UnparsablePost(resp[1].req)
  /\ resp[1].status = 500
  /\ resp[1].body = ErrorBody
  /\ steps # <<>>

\* this step answers a request: the response is another one than before
AnswersRequest ==
  /\ resp' # None
  /\ \/ resp = None
     \/ resp[1].req # resp'[1].req
     \/ resp[1].status # resp'[1].status

\* C12: a request to the health/steps API whose method is neither GET nor
\* POST is answered with status 404 in the step in which it arrives: that
\* step changes no collection, and no handler is left at work on it.
C12_OtherMethodNotFound ==
  [][/\ \A h \in Handlers :
          (hs'[h].kind = "API" /\ hs'[h].data # None) =>
            hs'[h].data[1].method \in {"GET", "POST"}
     /\ (AnswersRequest /\ resp'[1].req.method \notin {"GET", "POST"}) =>
          /\ resp'[1].status = 404
          /\ storeVars' = storeVars
          /\ hs' = hs]_vars

C12_Witness ==
  /\ resp # None
  /\ resp[1].req.method \notin {"GET", "POST"}
  /\ resp[1].req.body # None
  /\ resp[1].status = 404
  /\ resp[1].body = NotFoundBody
  /\ steps # <<>>
  /\ healthData # <<>>

----------------------------------------------------------------------------
(* Claims about the caches *)

DataCache == caches[DATA_CACHE_NAME][1]

\* C6 as stated: if the live fetch succeeds, the handler returns the live
\* response and, once every cache.put that was called is carried out, the
\* copy stored in the data cache for that URL is that response; if the live
\* fetch fails, the handler returns the copy stored for that URL (nothing when
\* there is none).
C6_NetworkFirst ==
  (resp # None /\ puts = {}) =>
    /\ resp[1].live # None =>
         /\ resp[1].response = resp[1].live
         /\ DataCache[resp[1].req.url] = resp[1].live
    /\ resp[1].live = None => resp[1].response = resp[1].stored

\* C6 amended: if the live fetch resolves, the handler returns the live
\* response, and it calls cache.put exactly when the status is 200; if the
\* live fetch fails, the handler returns for a GET request the copy stored
\* for that URL (nothing when there is none) and nothing for another method.
\* The data cache only ever holds, under a URL, a 200 response to that URL.
C6_NetworkFirstOn200 ==
  /\ resp # None =>
       /\ resp[1].live # None =>
            /\ resp[1].response = resp[1].live
            /\ resp[1].putIssued = (resp[1].live[1].status = 200)
       /\ resp[1].live = None =>
            resp[1].response =
              IF resp[1].req.method = "GET" THEN resp[1].stored ELSE None
  /\ \A p \in puts : p.response.status = 200 /\ p.response.url = p.url
  /\ caches[DATA_CACHE_NAME] # None =>
       \A u \in Urls :
         DataCache[u] # None => DataCache[u][1].status = 200 /\ DataCache[u][1].url = u

\* C6's cases: a failed fetch was answered from the data cache, where an
\* earlier 200 response had been stored
C6_Witness ==
  /\ resp # None
  /\ resp[1].live = None
  /\ resp[1].response # None
  /\ resp[1].response = resp[1].stored

\* C7: after the activate handler's work has completed, no cache is left
\* whose name is not one of the three current names, and each of the three
\* that existed before is still there.
C7_ActivateEvicts ==
  act.pc = "done" =>
    /\ CacheKeys \subseteq CurrentCaches
    /\ (act.before \cap CurrentCaches) \subseteq CacheKeys

\* C7's case: the activation found old caches beside all three current ones
C7_Witness ==
  /\ act.pc = "done"
  /\ OldCaches \subseteq act.before
  /\ CurrentCaches \subseteq act.before

----------------------------------------------------------------------------
(* Claims about the share target *)

\* the response to the POST, once there is one
Shared == resp[1]

\* the POST was answered and its form had been read and parsed
ShareParsed == resp # None /\ Shared.payload # None

\* the form carries a text and no file, so that the text is what is parsed
TextShared == ShareParsed /\ Shared.req.file = None /\ Shared.req.text # None

\* '<date>,<integer>'
IsDateIntegerLine(line) ==
  LET parts == Split(line, ",")
  IN  /\ Len(parts) = 2
      /\ parts[1] \in Dates
      /\ parts[2] # <<>>
      /\ \A i \in 1..Len(parts[2]) : IsDigit(parts[2][i])

\* the record carries the line's date and steps
Carries(record, line) ==
  LET parts == Split(line, ",")
  IN  /\ record.v.date = Str(parts[1])
      /\ record.v.steps = Num(Decimal(parts[2]))
      /\ record.v.type = Str(STEPS)

TwoLineText == Day1 \o <<",", "5", "0", "0", "\n">> \o Day2 \o <<",", "7", "5", "0">>

\* C8 as stated: normalizing comma-delimited text in which every line is
\* '<date>,<integer>' yields exactly one Steps record per line, in line order,
\* each carrying that line's date and steps.
C8_OneRecordPerLine ==
  TextShared =>
    LET lines == Split(Shared.req.text[1], "\n")
        records == Shared.payload[1].v
    IN  (\A k \in 1..Len(lines) : IsDateIntegerLine(lines[k])) =>
          /\ Len(records) = Len(lines)
          /\ \A k \in 1..Len(lines) : Carries(records[k], lines[k])

\* C8 amended: normalizing comma-delimited text in which every line is
\* '<date>,<integer>' yields exactly one Steps record per line after the
\* first, in line order, each carrying that line's date and steps; the first
\* line is skipped as a header.
C8_OneRecordPerLineAfterHeader ==
  TextShared =>
    LET lines == Split(Shared.req.text[1], "\n")
        records == Shared.payload[1].v
    IN  (\A k \in 1..Len(lines) : IsDateIntegerLine(lines[k])) =>
          /\ Len(records) = Len(lines) - 1
          /\ \A k \in 1..Len(lines) - 1 : Carries(records[k], lines[k + 1])

\* C8's case: the two-line text 2024-01-01,500 / 2024-01-02,750 was
\* normalized, to one record of 750 steps dated 2024-01-02
C8_Witness ==
  /\ TextShared
  /\ Shared.req.text[1] = TwoLineText
  /\ Len(Shared.payload[1].v) = 1
  /\ Carries(Shared.payload[1].v[1], Day2 \o <<",", "7", "5", "0">>)

\* the elements of the payload, as processHealthData walks them
Elements == Items(Shared.payload[1])

\* a structured payload was shared: an object or an array of objects
StructuredShare ==
  /\ ShareParsed
  /\ Shared.payload[1].t \in {"object", "array"}
  /\ \A k \in 1..Len(Elements) : Elements[k].t = "object"
  /\ JSONParse(IF Shared.req.file # None THEN Shared.req.file[1]
                                          ELSE Shared.req.text[1]).ok

TypedSteps(e) == Has(e, "type") /\ e.v.type = Str(STEPS)

\* the Steps record C9 describes for an element
ExpectedSteps(e) ==
  [date |-> IF Has(e, "date") THEN e.v.date.v ELSE Today,
   steps |-> IF Has(e, "steps") /\ e.v.steps.v # 0 THEN e.v.steps.v
             ELSE IF Has(e, "value") /\ e.v.value.v # 0 THEN e.v.value.v
             ELSE 0,
   source |-> IF Has(e, "source") THEN e.v.source.v ELSE SHARED,
   metadata |-> IF Has(e, "metadata") THEN Raw(e.v.metadata) ELSE <<>>,
   timestamp |-> Now]

\* the HealthData record of an element stored unchanged
ExpectedHealth(e) == WithProperty(Raw(e), "timestamp", Now)

\* The store holds what it held before and, after it, the first k elements:
\* those that count as steps in Steps, the others in HealthData
StoredFirst(k, CountsAsSteps(_)) ==
  LET first == SubSeq(Elements, 1, k)
      asSteps == SelectSeq(first, CountsAsSteps)
      asHealth == SelectSeq(first, LAMBDA e : ~CountsAsSteps(e))
  IN  /\ steps = Shared.before.steps \o [j \in 1..Len(asSteps) |-> ExpectedSteps(asSteps[j])]
      /\ healthData = Shared.before.healthData
                        \o [j \in 1..Len(asHealth) |-> ExpectedHealth(asHealth[j])]

\* C9 as stated: every element of a shared structured payload is stored as a
\* Steps record exactly when it has type 'steps' or a defined steps field or
\* a defined value field, and otherwise unchanged as a HealthData record;
\* never in both collections or in neither.
C9_StepsOrHealth ==
  (StructuredShare /\ Shared.status = 302) =>
    StoredFirst(Len(Elements),
                LAMBDA e : TypedSteps(e) \/ Has(e, "steps") \/ Has(e, "value"))

\* C9 amended: every element of a shared structured payload is stored as a
\* Steps record exactly when it has type 'steps' or a defined steps field
\* (steps taken from steps when that is not 0, else from value when that is
\* not 0, else 0; date, source and metadata defaulted), and otherwise
\* unchanged as a HealthData record, never in both or in neither; an insert
\* that is rejected ends the processing with status 500 and leaves the
\* elements before it stored.
C9_StepsOrHealthByType ==
  StructuredShare =>
    \E k \in 0..Len(Elements) :
      /\ Shared.status = 302 => k = Len(Elements)
      /\ Shared.status = 500 => k < Len(Elements)
      /\ StoredFirst(k, LAMBDA e : TypedSteps(e) \/ Has(e, "steps"))

\* C9's case: an array of two objects was shared and stored, one as a Steps
\* record and one, which has a value and no steps, as a HealthData record
C9_Witness ==
  /\ StructuredShare
  /\ Shared.status = 302
  /\ Len(Elements) = 2
  /\ Len(steps) = Len(Shared.before.steps) + 1
  /\ Len(healthData) = Len(Shared.before.healthData) + 1
  /\ \E k \in 1..2 : Has(Elements[k], "value") /\ ~Has(Elements[k], "steps")

\* the text has a match of '<number> step(s)': a digit, white space or none,
\* and the word step in either case
HasStepPhrase(text) ==
  \E i \in 1..Len(text) :
    /\ IsDigit(text[i])
    /\ LET w == SkipWhile(text, i + 1, IsSpace)
       IN  /\ At(text, w) \in {"s", "S"} /\ At(text, w + 1) = "t"
           /\ At(text, w + 2) = "e" /\ At(text, w + 3) = "p"

\* the POST carried a text without a comma and without a step match
PlainTextShared ==
  /\ resp # None
  /\ Shared.req.text # None
  /\ ~Includes(Shared.req.text[1], ",")
  /\ ~HasStepPhrase(Shared.req.text[1])

\* every collection is as it was before the request
StoreUnchanged ==
  /\ steps = Shared.before.steps
  /\ healthData = Shared.before.healthData
  /\ quests = Shared.before.quests
  /\ habits = Shared.before.habits

\* no record was produced, and every collection is as it was
NothingStored ==
  /\ Shared.payload # None => \A k \in 1..Len(Elements) : Elements[k].t # "object"
  /\ StoreUnchanged

\* the text is a JSON document that is an object or an array holding one
HoldsObject(text) ==
  /\ JSONParse(text).ok
  /\ \E k \in 1..Len(Items(JSONParse(text).value)) :
       Items(JSONParse(text).value)[k].t = "object"

\* C10 as stated, in the part that is about the store: a share-target POST
\* whose text contains no comma and no '<number> step(s)' match leaves every
\* collection of the store exactly as it was before the request.
C10_PlainTextStoresNothing == PlainTextShared => StoreUnchanged

\* C10 amended: a share-target POST that carries no healthData file and
\* whose text contains no comma and no '<number> step(s)' match, and is not
\* a JSON document that is an object or an array holding one, produces zero
\* records and leaves every collection of the store exactly as it was.
C10_UnreadableTextStoresNothing ==
  (PlainTextShared /\ Shared.req.file = None /\ ~HoldsObject(Shared.req.text[1]))
    => NothingStored

\* C10's case: a text that is neither JSON nor delimited and has no step
\* match was normalized to an empty list, in front of a store that holds
\* records, and the redirect was returned
C10_Witness ==
  /\ PlainTextShared
  /\ Shared.req.file = None
  /\ Shared.req.text[1] # <<>>
  /\ ~JSONParse(Shared.req.text[1]).ok
  /\ Shared.payload = Some(Arr(<<>>))
  /\ Shared.status = 302
  /\ steps # <<>> /\ quests # <<>>

\* processHealthData was called: the form was read and the payload is truthy
Processed == ShareParsed /\ Truthy(Shared.payload[1])

\* the records the payload asks to store, and those the request has stored
Submitted == IF Shared.payload[1].t = "array" THEN Len(Shared.payload[1].v) ELSE 1
Persisted ==
  (Len(steps) - Len(Shared.before.steps)) + (Len(healthData) - Len(Shared.before.healthData))

----------------------------------------------------------------------------
(* Claims about deferred work *)

\* the deferred-work run that ended last
Ran == ran[1]

\* the message reports that the work was done
ReportsCompletion(m) ==
  \/ m.type = "BACKGROUND_SYNC_COMPLETE" /\ m.data.success
  \/ m.type \in {"DAILY_QUEST_CHECK", "QUEST_PROGRESS_UPDATED"}

\* C14: every deferred-work run ends by broadcasting a typed message (unless
\* the clients cannot be listed), which reports completion when the run's
\* reconciliation succeeded (or the run has none) and failure when it
\* failed; in particular a BACKGROUND_SYNC_COMPLETE with success = true is
\* sent only if the reconciliation succeeded.
C14_RunReportsOutcome ==
  (ran # None /\ Ran.matchAll # "rejected") =>
    /\ Ran.sent # None
    /\ ReportsCompletion(Ran.sent[1]) <=> Ran.reconciled # Some(FALSE)

----------------------------------------------------------------------------
(* Claims about the installation *)

\* the app-shell cache holds every file of the list
ShellPopulated ==
  /\ caches[CACHE_NAME] # None
  /\ \A u \in FILES_TO_CACHE : caches[CACHE_NAME][1][u] # None

\* C16 as stated: during install the skip-waiting signal is issued only
\* after the app-shell cache has been populated with the whole asset list
\* and the store has been initialized; never while either is pending or
\* after either has failed.
C16_SkipAfterInstall ==
  inst.skip => (inst.shell = "done" /\ inst.db = "done" /\ ShellPopulated)

\* C16 amended: the skip-waiting signal is issued when the install event is
\* dispatched, before the cache is populated and the store initialized and
\* whatever becomes of them; the installation ends only when both have ended
\* or one has failed, and the worker is activated only after the app-shell
\* cache has been populated with the whole asset list and the store has been
\* initialized, never while either is pending or after either has failed.
C16_SkipAtOnceActivateAfterInstall ==
  /\ inst.pc # "idle" => inst.skip
  /\ inst.pc \in {"installed", "activated"} =>
       (inst.shell = "done" /\ inst.db = "done" /\ ShellPopulated)
  /\ inst.pc = "redundant" => (inst.shell = "failed" \/ inst.db = "failed")

\* C16's case: the signal has been issued, the cache is not populated yet and
\* the opening of the store has failed
C16_Witness ==
  /\ inst.skip
  /\ inst.shell \in {"open", "addAll"}
  /\ ~ShellPopulated
  /\ inst.db = "failed"

----------------------------------------------------------------------------
(* Claims about the app shell *)

\* the entries of the cache n: a cache that does not exist holds none
Content(cs, n) == IF cs[n] = None THEN EmptyCache ELSE cs[n][1]

\* handler h takes a step of a request for the app shell
ShellStep(h) ==
  /\ hs'[h].pc # hs[h].pc
  /\ hs[h].kind = "SHELL" \/ hs'[h].kind = "SHELL"

\* the step answers as the cache-first rule wants: at cache.match a GET
\* with an entry under its URL is answered with that entry, and only a
\* request without one goes on to the network; at the end of the fetch the
\* answer is what the network gave
CacheFirst(h) ==
  LET req == hs[h].data[1]
      entry == Content(caches, CACHE_NAME)[req.url]
      hit == req.method = "GET" /\ entry # None
  IN  /\ hs[h].pc = "shellMatch" =>
           IF hit THEN /\ hs'[h].pc = "idle"
                       /\ resp' # None
                       /\ resp'[1].req = req
                       /\ resp'[1].response = entry
                  ELSE hs'[h].pc = "shellFetch" /\ resp' = resp
      /\ hs[h].pc = "shellFetch" =>
           /\ hs'[h].pc = "idle"
           /\ resp' # None
           /\ resp'[1].req = req
           /\ resp'[1].response = resp'[1].live

\* C17: a request for the app shell is answered with the entry of the
\* app-shell cache when there is one for it, and otherwise with the result
\* of a live fetch; no step of its handler changes the entries of any of
\* the three caches (an app-shell cache that does not exist is created
\* empty); and the entries of the app-shell cache change only in the step
\* in which the install handler's addAll stores the asset list.
C17_CacheFirstReadOnly ==
  [][/\ \A h \in Handlers :
          ShellStep(h) =>
            /\ \A n \in CurrentCaches : Content(caches', n) = Content(caches, n)
            /\ hs[h].kind = "SHELL" => CacheFirst(h)
     /\ Content(caches', CACHE_NAME) # Content(caches, CACHE_NAME) =>
          (inst.shell = "addAll" /\ inst'.shell = "done")]_vars

\* C17's case: the install has populated the cache, and a GET of a file of
\* the list was answered with the entry that it stored, without a fetch
C17_Witness ==
  /\ resp # None
  /\ resp[1].req = [method |-> "GET", url |-> "/"]
  /\ ShellPopulated
  /\ resp[1].response = Some(ShellResponse("/"))
  /\ resp[1].live = None

----------------------------------------------------------------------------
(* Claims about the lifetime of the worker *)

\* the task of a SAVE_STEPS_DATA message was cut off after its insert had
\* committed (the run it starts was called) and before the run was over
CutOffAfterInsert(h) ==
  /\ hs[h].kind = "SAVE_STEPS_DATA"
  /\ hs[h].pc = "terminated"
  /\ hs[h].start # None

\* C20: every handler registers the store and network work that outlasts
\* its callback with the event, so that the worker is not stopped before
\* the work is done: the worker is never stopped under a task in flight, and
\* in particular no SAVE_STEPS_DATA ends with its record inserted and its
\* reconciliation cut off.
C20_WorkOutlivesCallback ==
  \A h \in Handlers : hs[h].pc = "terminated" => ~CutOffAfterInsert(h)

----------------------------------------------------------------------------
(* Claims about what a reconciliation leaves alone *)

\* this step is a step of the run of handler h: its task is inside
\* updateQuestProgress and moves on
RunMoves(h) ==
  /\ hs[h].pc \in RunPcs
  /\ <<hs'[h].pc, hs'[h].i>> # <<hs[h].pc, hs[h].i>>

\* the quest q is p but for its progress, completed and updatedAt
SameButProgress(p, q) ==
  [q EXCEPT !.progress = p.progress, !.completed = p.completed,
            !.updatedAt = p.updatedAt] = p

\* the Quests collection qs holds the identifiers of ps, and each quest
\* differs from the one of ps in nothing but progress, completed, updatedAt
QuestsFrame(ps, qs) ==
  /\ DOMAIN qs = DOMAIN ps
  /\ \A i \in DOMAIN ps : SameButProgress(ps[i], qs[i])

\* C21: a step of a run of updateQuestProgress, whether the run succeeds or
\* fails and whatever the other handlers do between its steps, leaves the
\* Steps, HealthData and Habits collections as they are, adds and removes no
\* quest, and changes no field of a quest but progress, completed and
\* updatedAt.
C21_RunFrame ==
  [][\A h \in Handlers :
       RunMoves(h) =>
         /\ <<steps, healthData, habits>>' = <<steps, healthData, habits>>
         /\ QuestsFrame(quests, quests')]_vars

\* C21's case: a run has ended over a store that holds steps of today, a
\* health record and a step quest with a target, and another handler wrote
\* while the run was in flight
C21_Witness ==
  /\ fin # None
  /\ ~fin[1].clean
  /\ TotalStepsToday > 0
  /\ healthData # <<>>
  /\ \E i \in DOMAIN quests : Updated(quests[i])

====
